---- MODULE Spec2Model ----
(***************************************************************************)
(* A model of the orchestration core of cluster-deployment-automation:     *)
(*   - ClusterDeployer / IsoDeployer: the deploy and teardown sequences,   *)
(*     the provisioning phases with their worker pool and known-state poll *)
(*     (src/clusterDeployer.py, src/isoDeployer.py, src/cda.py);           *)
(*   - Host: remote command execution, reconnect and output capture        *)
(*     (src/host.py).                                                      *)
(* Each subsystem has its own variables and its own specification; the     *)
(* variables of the other subsystems stay at their initial value.          *)
(***************************************************************************)
EXTENDS Integers, Sequences, FiniteSets, TLC

VARIABLES
    \* ---- deploy: ClusterDeployer / IsoDeployer
    cc,         \* the configuration (ClustersConfig) and the call made in cda.main_deploy
    steps,      \* ClusterDeployer.steps: the selected steps, a tuple
    stageIdx,   \* index of the stage of the deploy sequence being executed
    todo,       \* the statements of the current stage still to execute
    run,        \* "constructing" | "running" | "done" | "fatal" (error_and_exit) |
                \* "raised" (exception)
    log,        \* the operations issued to collaborators so far, in order
    futs,       \* node -> state of the Future of its start task
    joined,     \* nodes whose start Future has been joined (Future.result())
    status,     \* _wait_known_state: the local dict `status`
    polled,     \* groups whose _wait_known_state has returned
    allReady,   \* groups for which a status snapshot had every node "known"
    \* ---- known: one call of ClusterDeployer._wait_known_state, statement by statement
    k_n,        \* the number of expected names (names are 1..k_n, in order)
    k_inv,      \* the expected names that are in _all_nodes
    k_pc,       \* the statement the poll is at
    k_status,   \* the local dict `status`
    k_new,      \* `new_status` as far as this pass has looked it up
    k_passes,   \* passes begun so far
    k_last,     \* the most recent complete status snapshot
    k_errSnap,  \* a complete snapshot contained "error"
    k_dumped,   \* the nodes whose print_logs has been called, in order
    k_cont,     \* the statuses, other than "known", of snapshots after which the poll slept
    \* ---- run: threads running commands through Host._run_remote on one remote Host
    r_pc,       \* thread -> the statement of _run_remote / ssh_connect_looped it is at
    r_up,       \* the session held in self._host can open channels
    r_connects, \* successful logins since the start: the generation of self._host
    r_drops,    \* connection losses so far
    r_nlogins,  \* len(self._logins)
    r_execs,    \* thread -> exec_command calls made
    r_fails,    \* thread -> exec_command calls that raised
    r_chan,     \* thread -> the exec_command call whose channel is bound to stdout, stderr
    r_result,   \* thread -> the exec_command call whose output the returned Result holds
    r_err,      \* thread -> the exception that left _run_remote
    r_li,       \* thread -> index in `logins` of the login being tried
    r_slept,    \* thread -> backoff sleeps of the current ssh_connect_looped call
    r_in,       \* what ssh_connect was called with and found on disk
    r_logins,   \* self._logins: the kinds of the Login objects, in list order
    r_hist,     \* thread -> the indices of the logins attempted in the current
                \* ssh_connect_looped call, in order
    \* ---- capture: one call of Host.ssh_run_poll_result, statement by statement
    c_pc,       \* the statement the call is at
    c_i,        \* the loop variable i, as 1 (stdout) and 2 (stderr)
    c_state,    \* the local list `state`
    c_datas,    \* the local list `datas`: the bytes received per stream
    c_returncode, \* the local `returncode`
    c_any,      \* the local `any_data`
    c_total,    \* the number of bytes the command writes per stream
    c_sent,     \* the number of bytes per stream that have reached the channel
    c_buf,      \* the bytes per stream in the channel's buffer, not yet received
    c_exit,     \* channel.exit_status_ready()
    c_exitcode, \* the exit status of the command
    c_closed,   \* per stream: source.close() has been called
    c_res,      \* the Result returned by ssh_run_poll_result or _run_local
    c_ret,      \* what Host.run returned and the status it logged
    \* ---- cache: threads looking up Host objects, Host("name"), statement by statement
    h_pc,       \* thread -> the statement of Host.__new__ / Host.__init__ it is at
    h_req,      \* thread -> the class and hostname of its lookup
    h_key,      \* thread -> the local `key` of its lookup
    h_obj,      \* thread -> the object its __new__ returned
    h_inst,     \* the dict host_instances: a function from the keys in it to objects
    h_made,     \* the objects created so far, each as <<key, object>>
    h_got,      \* the lookups that have returned, each as <<<<cls, hostname>>, object>>
    h_st,       \* object -> its attributes _logins and _host (the session)
    h_conn,     \* the objects on which ssh_connect has completed
    h_n,        \* lookups begun so far
    h_overlap,  \* lookups of different threads may overlap
    \* ---- rename: the loop of ClusterDeployer._rename_workers, statement by statement
    w_pc,       \* the statement the loop is at
    w_n,        \* len(workers): the expected workers are 1..w_n, worker i has IP i
    w_inv,      \* what self._ai.list_hosts() returns: host id -> entry
    w_name,     \* the names set by update_host: a function from the ids renamed
    w_i,        \* _try_rename_workers: the worker the outer loops are at
    w_renamed,  \* the local `renamed`
    w_upd,      \* worker -> update_host calls with its name in the current pass
    w_passes,   \* calls of _try_rename_workers that have returned
    w_slept,    \* time.sleep(5) calls so far
    w_changes,  \* changes of the inventory so far
    w_inrange,  \* the workers that have an IPv4 address inside real_ip_range
    w_log,      \* the workers logged as having no IP in range
    \* ---- dhcp: the DhcpConfig reservation lists and the dhcpd config file
    d_subnets,  \* the list DhcpConfig._subnet_configs (an attribute of the class)
    d_hosts,    \* the list DhcpConfig._host_configs (an attribute of the class)
    d_file,     \* the lines of /etc/dhcp/dhcpd.conf
    d_calls,    \* calls made so far
    d_last,     \* the arguments of the last add_host call, <<>> before the first
    b_pc,       \* boot_iso_redfish: "assert", "for", "try", "except", "returned",
                \* "raised", "assert_failed"
    b_colon,    \* ":" in iso_path
    b_retries,  \* the argument `retries`
    b_attempt,  \* iterations of `for attempt in range(retries)` begun
    b_err,      \* the exception `e` caught last, <<>> when none
    b_log,      \* boot_iso_with_retry outcomes and "sleep" for time.sleep(retry_delay)
    p_pc,       \* Host.write / Host.copy_to: "write", "copy_to", "put", "reconnect",
                \* "shell", "cat", "rm", "return", "done", "raised"
    p_sudo,     \* the argument `sudo`
    p_local,    \* self.is_localhost()
    p_fault,    \* what makes sftp fail: "none", "dropped" (a lost connection),
                \* "persistent" (a cause a reconnect does not remove)
    p_src,      \* src_file: "missing", "file", or the NamedTemporaryFile of
                \* write: "none" (not created yet), "tempfile", "removed"
    p_dst,      \* the destination file on the host
    p_tmp,      \* /tmp/cda-<uuid>.tmp on the host
    p_rc        \* `rc` of the shell command

vars_deploy == <<cc, steps, stageIdx, todo, run, log, futs, joined, status, polled, allReady>>
vars_known == <<k_n, k_inv, k_pc, k_status, k_new, k_passes, k_last, k_errSnap, k_dumped, k_cont>>

vars_run == <<r_pc, r_up, r_connects, r_drops, r_nlogins, r_execs, r_fails, r_chan, r_result,
              r_err, r_li, r_slept, r_in, r_logins, r_hist>>

vars_capture == <<c_pc, c_i, c_state, c_datas, c_returncode, c_any, c_total, c_sent, c_buf,
                  c_exit, c_exitcode, c_closed, c_res, c_ret>>

vars_cache == <<h_pc, h_req, h_key, h_obj, h_inst, h_made, h_got, h_st, h_conn, h_n, h_overlap>>

vars_rename == <<w_pc, w_n, w_inv, w_name, w_i, w_renamed, w_upd, w_passes, w_slept,
                 w_changes, w_inrange, w_log>>

vars_dhcp == <<d_subnets, d_hosts, d_file, d_calls, d_last>>

vars_boot == <<b_pc, b_colon, b_retries, b_attempt, b_err, b_log>>

vars_copy == <<p_pc, p_sudo, p_local, p_fault, p_src, p_dst, p_tmp, p_rc>>

vars == <<vars_deploy, vars_known, vars_run, vars_capture, vars_cache, vars_rename, vars_dhcp, vars_boot, vars_copy>>

\* what the actions of one subsystem leave unchanged
others_deploy == <<vars_known, vars_run, vars_capture, vars_cache, vars_rename, vars_dhcp, vars_boot, vars_copy>>
others_known == <<vars_deploy, vars_run, vars_capture, vars_cache, vars_rename, vars_dhcp, vars_boot, vars_copy>>
others_run == <<vars_deploy, vars_known, vars_capture, vars_cache, vars_rename, vars_dhcp, vars_boot, vars_copy>>
others_capture == <<vars_deploy, vars_known, vars_run, vars_cache, vars_rename, vars_dhcp, vars_boot, vars_copy>>
others_cache == <<vars_deploy, vars_known, vars_run, vars_capture, vars_rename, vars_dhcp, vars_boot, vars_copy>>
others_rename == <<vars_deploy, vars_known, vars_run, vars_capture, vars_cache, vars_dhcp, vars_boot, vars_copy>>
others_dhcp == <<vars_deploy, vars_known, vars_run, vars_capture, vars_cache, vars_rename, vars_boot, vars_copy>>
others_boot == <<vars_deploy, vars_known, vars_run, vars_capture, vars_cache, vars_rename, vars_dhcp, vars_copy>>
others_copy == <<vars_deploy, vars_known, vars_run, vars_capture, vars_cache, vars_rename, vars_dhcp, vars_boot>>

----------------------------------------------------------------------------
(* Bounds *)

MaxMasters == 2
MaxWorkers == 1

----------------------------------------------------------------------------
(* Steps and configuration *)

PRE_STEP == "pre"
MASTERS_STEP == "masters"
WORKERS_STEP == "workers"
POST_STEP == "post"

AllSteps == <<PRE_STEP, MASTERS_STEP, WORKERS_STEP, POST_STEP>>

RECURSIVE SubSeqs(_)
\* every subsequence of s, in the order of s
SubSeqs(s) ==
    IF s = <<>> THEN {<<>>}
    ELSE LET rest == SubSeqs(Tail(s))
         IN rest \cup {<<Head(s)>> \o r : r \in rest}

RECURSIVE Reverse(_)
Reverse(s) == IF s = <<>> THEN <<>> ELSE Reverse(Tail(s)) \o <<Head(s)>>

\* the step selections given to the deployer: every subset in the order of
\* AllSteps, and the selections of three or four steps also in reverse order
StepTuples == SubSeqs(AllSteps) \cup {Reverse(s) : s \in {t \in SubSeqs(AllSteps) : Len(t) >= 3}}

\* `x in self.steps` on the tuple
InSteps(x) == \E i \in DOMAIN steps : steps[i] = x

Master(i) == <<"master", i>>
Worker(i) == <<"worker", i>>

masters == [i \in 1..cc.nmasters |-> Master(i)]
workers == [i \in 1..cc.nworkers |-> Worker(i)]

RECURSIVE SeqToSet(_)
SeqToSet(s) == IF s = <<>> THEN {} ELSE {Head(s)} \cup SeqToSet(Tail(s))

\* NodeConfig.node: the host a node runs on.  The first master is a VM on the
\* provisioning host, further masters are on hostA; the first worker has a
\* host of its own (hostB), further workers share hostA with the masters.
HostOf(n) ==
    IF n[1] = "master"
    THEN (IF n[2] = 1 THEN "localhost" ELSE "hostA")
    ELSE (IF n[2] = 1 THEN "hostB" ELSE "hostA")

\* ClusterDeployer._all_hosts: the local host first
all_hosts == <<"localhost", "hostA", "hostB">>

k8s_master_nodes(h) == SelectSeq(masters, LAMBDA n : HostOf(n) = h)
k8s_worker_nodes(h) == SelectSeq(workers, LAMBDA n : HostOf(n) = h)

_all_hosts_with_masters == SelectSeq(all_hosts, LAMBDA h : Len(k8s_master_nodes(h)) > 0)
_all_hosts_with_workers == SelectSeq(all_hosts, LAMBDA h : Len(k8s_worker_nodes(h)) > 0)
_all_hosts_with_only_workers ==
    SelectSeq(all_hosts, LAMBDA h : Len(k8s_worker_nodes(h)) > 0 /\ Len(k8s_master_nodes(h)) = 0)

\* ClusterDeployer._all_nodes: the nodes of all hosts, by name
_all_nodes == SeqToSet(masters) \cup SeqToSet(workers)

\* ClustersConfig.master_vms / worker_vms / local_vms: every node of the model
\* is of kind "vm"
master_vms == masters
worker_vms == workers
local_vms == SelectSeq(masters \o workers, LAMBDA n : HostOf(n) = "localhost")

\* the single master of a microshift or iso cluster
single_master == Master(1)

masters_arch == "x86_64"
workers_arch == "x86_64"

----------------------------------------------------------------------------
(* Statements of a stage.  A stage is a sequence of statements executed by  *)
(* the driving thread:                                                      *)
(*   op          a call of a collaborator (recorded in `log`)               *)
(*   start       h.start_masters / h.start_workers / node.start: submits    *)
(*               one start task per node to the ThreadPoolExecutor          *)
(*   join        Future.result() of every task of a group                   *)
(*   poll_begin, poll   _wait_known_state                                   *)
(*   raise       an exception raised by the driver itself                   *)

Op(by, name, arg) == [k |-> "op", by |-> by, name |-> name, arg |-> arg]
Start(by, group, h) == [k |-> "start", by |-> by, name |-> group, arg |-> h]
Join(by, group) == [k |-> "join", by |-> by, name |-> group, arg |-> <<>>]
PollBegin(by, group) == [k |-> "poll_begin", by |-> by, name |-> group, arg |-> <<>>]
Poll(by, group) == [k |-> "poll", by |-> by, name |-> group, arg |-> <<>>]
Raise(by, what) == [k |-> "raise", by |-> by, name |-> what, arg |-> <<>>]

Host(h) == <<"host", h>>

\* `for x in xs: f(x)`
ForEach(xs, F(_)) == [i \in 1..Len(xs) |-> F(xs[i])]

RECURSIVE Flatten(_)
\* the concatenation of a sequence of sequences
Flatten(ss) == IF ss = <<>> THEN <<>> ELSE Head(ss) \o Flatten(Tail(ss))

\* the tasks submitted to the worker pool
Nodes == {Master(i) : i \in 1..MaxMasters} \cup {Worker(i) : i \in 1..MaxWorkers}
Preinstall(h) == <<"preinstall", h>>
Tasks == Nodes \cup {Preinstall(all_hosts[i]) : i \in DOMAIN all_hosts}

\* the tasks a `start` statement submits, in order
StartTasks(group, h) ==
    CASE group = "masters" -> k8s_master_nodes(h)
      [] group = "workers" -> k8s_worker_nodes(h)
      [] group = "preinstall" -> <<Preinstall(h)>>
      [] group = "iso" -> <<single_master>>

\* the hosts whose nodes a group's start statements are issued for
GroupHosts(group) ==
    CASE group = "masters" -> _all_hosts_with_masters
      [] group = "workers" -> _all_hosts_with_workers
      [] group = "preinstall" -> _all_hosts_with_workers
      [] group = "iso" -> <<HostOf(single_master)>>

\* the list `futures` (preinstall_futures, node.future) a `join` statement
\* waits for: the futures the group's start statements returned
GroupTasks(group) ==
    UNION {SeqToSet(StartTasks(group, GroupHosts(group)[i])) : i \in DOMAIN GroupHosts(group)}

\* the names _wait_known_state is called with
PollNames(group) ==
    CASE group = "masters" -> SeqToSet(masters)
      [] group = "workers" -> SeqToSet(workers)

----------------------------------------------------------------------------
(* The stages of ClusterDeployer *)

NoArg == <<>>

\* teardown_masters without the check of the cluster kind
teardown_masters_AnyKind(force) ==
    IF ~InSteps(MASTERS_STEP) THEN <<>>
    ELSE <<Op("teardown_masters", "ensure_cluster_deleted", NoArg),
           Op("teardown_masters", "delete_kubeconfig_and_secrets", NoArg)>>

\* teardown_masters deleting the infra-envs right after the cluster and the
\* DHCP entries before the nodes are torn down
teardown_masters_RecordsFirst(force) ==
    IF cc.kind # "openshift" THEN <<>>
    ELSE IF ~InSteps(MASTERS_STEP) THEN <<>>
    ELSE LET by == "teardown_masters" IN
         <<Op(by, "ensure_cluster_deleted", NoArg),
           Op(by, "ensure_infraenv_deleted", <<"arch", "x86_64">>),
           Op(by, "ensure_infraenv_deleted", <<"arch", "arm64">>),
           Op(by, "update_dnsmasq", <<"setup", FALSE>>),
           Op(by, "remove_dhcp_entries", NoArg)>>
         \o ForEach(_all_hosts_with_masters, LAMBDA h : Op(by, "teardown_nodes", Host(h)))
         \o (IF Len(local_vms) > 0 THEN <<Op(by, "virsh_pool_ensure_removed", NoArg)>> ELSE <<>>)
         \o ForEach(_all_hosts_with_masters,
                    LAMBDA h : Op(by, "ensure_not_linked_to_network", Host(h)))
         \o <<Op(by, "delete_kubeconfig_and_secrets", NoArg)>>

\* `force` is the keyword argument of the teardown functions
teardown_masters(force) ==
    IF cc.kind # "openshift" THEN <<>>
    \* `if not force and not self._cc.masters:` only logs; it does not return
    ELSE IF ~InSteps(MASTERS_STEP) THEN <<>>
    ELSE LET by == "teardown_masters" IN
         <<Op(by, "ensure_cluster_deleted", NoArg),
           Op(by, "update_dnsmasq", <<"setup", FALSE>>)>>
         \o ForEach(_all_hosts_with_masters, LAMBDA h : Op(by, "teardown_nodes", Host(h)))
         \o <<Op(by, "ensure_infraenv_deleted", <<"arch", "x86_64">>),
              Op(by, "ensure_infraenv_deleted", <<"arch", "arm64">>),
              Op(by, "remove_dhcp_entries", NoArg)>>
         \o (IF Len(local_vms) > 0 THEN <<Op(by, "virsh_pool_ensure_removed", NoArg)>> ELSE <<>>)
         \o ForEach(_all_hosts_with_masters,
                    LAMBDA h : Op(by, "ensure_not_linked_to_network", Host(h)))
         \o <<Op(by, "delete_kubeconfig_and_secrets", NoArg)>>

\* teardown_workers doing nothing unless forced
teardown_workers_OnlyForced(force, vmsRemain) ==
    IF cc.kind # "openshift" THEN <<>>
    ELSE IF ~force THEN <<>>
    ELSE IF ~InSteps(WORKERS_STEP) /\ ~InSteps(MASTERS_STEP) THEN <<>>
    ELSE <<Op("teardown_workers", "remove_dhcp_entries", NoArg)>>

\* `vmsRemain`: whether `virsh list --all --name` still lists VMs on a host
\* that has only workers
teardown_workers(force, vmsRemain) ==
    IF cc.kind # "openshift" THEN <<>>
    ELSE IF ~force /\ Len(masters) = 0 THEN <<>>
    ELSE IF ~InSteps(WORKERS_STEP) /\ ~InSteps(MASTERS_STEP) THEN <<>>
    ELSE LET by == "teardown_workers" IN
         ForEach(_all_hosts_with_workers, LAMBDA h : Op(by, "teardown_nodes", Host(h)))
         \o <<Op(by, "remove_dhcp_entries", NoArg)>>
         \o (IF vmsRemain THEN <<>>
             ELSE ForEach(_all_hosts_with_only_workers,
                          LAMBDA h : Op(by, "ensure_not_linked_to_network", Host(h))))
         \o (IF InSteps(MASTERS_STEP) THEN <<>>
             ELSE Flatten(ForEach(workers, LAMBDA w : <<Op(by, "delete_node", w),
                                                        Op(by, "delete_host", w)>>)))

_preconfig ==
    IF Len(masters) = 0 THEN <<>>
    ELSE IF ~InSteps(PRE_STEP) THEN <<>>
    ELSE <<Op("_preconfig", "extra_config_run", NoArg)>>

_postconfig ==
    IF ~InSteps(POST_STEP) THEN <<>>
    ELSE <<Op("_postconfig", "extra_config_run", NoArg)>>

\* _create_cluster without the check of the masters step
_create_cluster_Ungated ==
    IF cc.kind # "openshift" THEN <<>>
    ELSE IF Len(masters) = 0 THEN <<>>
    ELSE <<Op("_create_cluster", "create_cluster", NoArg)>>

_create_cluster ==
    IF cc.kind # "openshift" THEN <<>>
    ELSE IF Len(masters) = 0 THEN <<>>
    ELSE IF ~InSteps(MASTERS_STEP) THEN <<>>
    ELSE <<Op("_create_cluster", "create_cluster", NoArg)>>

\* _create_masters starting the masters before the hosts are set up
_create_masters_StartsFirst ==
    IF cc.kind # "openshift" THEN <<>>
    ELSE IF Len(masters) = 0 THEN <<>>
    ELSE IF ~InSteps(MASTERS_STEP) THEN <<>>
    ELSE LET by == "_create_masters" IN
         ForEach(_all_hosts_with_masters, LAMBDA h : Start(by, "masters", h))
         \o ForEach(_all_hosts_with_masters, LAMBDA h : Op(by, "configure_bridge", Host(h)))
         \o <<Op(by, "setup_dhcp_entries", NoArg)>>
         \o ForEach(_all_hosts_with_masters,
                    LAMBDA h : Op(by, "ensure_linked_to_network", Host(h)))
         \o <<Join(by, "masters")>>

_create_masters ==
    IF cc.kind # "openshift" THEN <<>>
    ELSE IF Len(masters) = 0 THEN <<>>
    ELSE IF ~InSteps(MASTERS_STEP) THEN <<>>
    ELSE LET by == "_create_masters"
             hosts_with_masters == _all_hosts_with_masters
         IN
         <<Op(by, "ensure_infraenv_created", <<"arch", masters_arch>>)>>
         \o ForEach(hosts_with_masters, LAMBDA h : Op(by, "configure_bridge", Host(h)))
         \o <<Op(by, "setup_dhcp_entries", NoArg)>>
         \o ForEach(hosts_with_masters, LAMBDA h : Op(by, "ensure_linked_to_network", Host(h)))
         \o <<Op(by, "download_iso_with_retry", NoArg)>>
         \o ForEach(hosts_with_masters, LAMBDA h : Start(by, "masters", h))
         \o ForEach(hosts_with_masters, LAMBDA h : Op(by, "wait_for_boot", Host(h)))
         \o <<PollBegin(by, "masters"), Poll(by, "masters"),
              Op(by, "start_until_success", NoArg),
              Op(by, "download_kubeconfig_and_secrets", NoArg),
              Op(by, "wait_cluster", NoArg),
              Op(by, "update_etc_hosts", NoArg),
              Join(by, "masters")>>
         \o ForEach(hosts_with_masters, LAMBDA h : Op(by, "ensure_linked_to_network", Host(h)))
         \o Flatten(ForEach(hosts_with_masters,
                LAMBDA h : ForEach(k8s_master_nodes(h), LAMBDA n : Op(by, "set_password", n))))
         \o <<Op(by, "update_dnsmasq", <<"setup", TRUE>>)>>

_create_workers ==
    IF cc.kind # "openshift" THEN <<>>
    ELSE IF Len(workers) = 0 THEN <<>>
    ELSE IF Len(masters) = 0 THEN <<>>
    ELSE IF ~InSteps(WORKERS_STEP) THEN <<>>
    ELSE LET by == "_create_workers"
             hosts_with_workers == _all_hosts_with_workers
         IN
         <<Op(by, "allow_add_workers", NoArg),
           Op(by, "ensure_infraenv_created", <<"arch", workers_arch>>)>>
         \o ForEach(hosts_with_workers, LAMBDA h : Op(by, "configure_bridge", Host(h)))
         \o <<Op(by, "setup_dhcp_entries", NoArg)>>
         \o ForEach(hosts_with_workers, LAMBDA h : Op(by, "ensure_linked_to_network", Host(h)))
         \o ForEach(hosts_with_workers, LAMBDA h : Start(by, "preinstall", h))
         \o <<Join(by, "preinstall"),
              Op(by, "download_iso_with_retry", NoArg),
              Op(by, "_get_discovery_ign_ssh_priv_key", NoArg)>>
         \o ForEach(hosts_with_workers, LAMBDA h : Start(by, "workers", h))
         \o ForEach(hosts_with_workers, LAMBDA h : Op(by, "wait_for_boot", Host(h)))
         \o <<Op(by, "_rename_workers", NoArg),
              PollBegin(by, "workers"), Poll(by, "workers"),
              Op(by, "start_infraenv", NoArg),
              Op(by, "wait_for_workers", NoArg)>>
         \o Flatten(ForEach(hosts_with_workers,
                LAMBDA h : ForEach(k8s_worker_nodes(h), LAMBDA n : Op(by, "set_password", n))))
         \o <<Join(by, "workers")>>

\* the body shared by ClusterDeployer._deploy_cluster (kind "iso") and
\* IsoDeployer._deploy_master
iso_deploy_master(by) ==
    CASE cc.mkind = "ipu" -> <<Start(by, "iso", HostOf(single_master)), Join(by, "iso")>>
      [] cc.mkind = "marvell-dpu" -> <<Op(by, "MarvellIsoBoot", single_master)>>
      [] OTHER -> <<Raise(by, "unexpected master kind")>>

\* _deploy_cluster creating the workers before the masters
_deploy_cluster_WorkersFirst ==
    CASE cc.kind = "microshift" ->
            IF ~InSteps(MASTERS_STEP) THEN <<>>
            ELSE <<Op("_deploy_cluster", "microshift_deploy", single_master)>>
      [] cc.kind = "iso" ->
            IF ~InSteps(MASTERS_STEP) THEN <<>>
            ELSE iso_deploy_master("_deploy_cluster")
      [] cc.kind = "openshift" -> _create_cluster \o _create_workers \o _create_masters

_deploy_cluster ==
    CASE cc.kind = "microshift" ->
            IF ~InSteps(MASTERS_STEP) THEN <<>>
            ELSE <<Op("_deploy_cluster", "microshift_deploy", single_master)>>
      [] cc.kind = "iso" ->
            IF ~InSteps(MASTERS_STEP) THEN <<>>
            ELSE iso_deploy_master("_deploy_cluster")
      [] cc.kind = "openshift" -> _create_cluster \o _create_masters \o _create_workers

\* deploy with the master teardown moved in front of the pre-configuration
deploy_Reordered(vmsRemain) ==
    <<teardown_masters(FALSE),
      _preconfig,
      teardown_workers(FALSE, vmsRemain),
      _deploy_cluster,
      _postconfig>>

\* ClusterDeployer.deploy
deploy(vmsRemain) ==
    <<_preconfig,
      teardown_workers(FALSE, vmsRemain),
      teardown_masters(FALSE),
      _deploy_cluster,
      _postconfig>>

\* IsoDeployer.deploy
IsoDeployer_deploy ==
    <<IF InSteps(PRE_STEP) THEN <<Op("IsoDeployer._preconfig", "extra_config_run", NoArg)>>
      ELSE <<>>,
      IF InSteps(MASTERS_STEP) THEN iso_deploy_master("_deploy_master") ELSE <<>>,
      IF InSteps(POST_STEP) THEN <<Op("IsoDeployer._postconfig", "extra_config_run", NoArg)>>
      ELSE <<>>>>

\* cda.main_deploy: a teardown request or a deploy
main_deploy(vmsRemain) ==
    IF cc.deployer = "IsoDeployer" THEN IsoDeployer_deploy
    ELSE IF cc.teardown
         THEN <<teardown_workers(TRUE, vmsRemain), teardown_masters(TRUE)>>
         ELSE deploy(vmsRemain)

----------------------------------------------------------------------------
(* The known-state poll: the status values of the install backend *)

\* AssistedClientAutomation host status as _get_status returns it: None for a
\* host the backend does not know, otherwise the backend's status string
None == "None"
BackendStatus == {None, "discovering", "known", "error"}

\* `all(v == "known" for v in status.values())`
AllKnown(st) == \A n \in DOMAIN st : st[n] = "known"

\* `any(v == "error" for v in status.values())`
AnyError(st) == \E n \in DOMAIN st : st[n] = "error"

----------------------------------------------------------------------------
(* Deploy: initial state and actions *)

\* `min_cores` of _validate
MinCores == 28

\* what `nproc` prints on the local host
CoreCounts == {MinCores - 1, MinCores}

\* NodeConfig.parse: the node kinds it accepts
valid_kinds == {"physical", "vm", "bf", "marvell-dpu"}

\* ClusterConfig.parse, kind "iso": the one master is a node NodeConfig.parse
\* has accepted and `master.kind not in ("physical", "marvell-dpu")` is false
IsoMasterAccepted(kind) == kind \in valid_kinds /\ kind \in {"physical", "marvell-dpu"}

\* ncores: the cores of the local host; extport: get_external_port() finds
\* the external interface (it raises otherwise); mkind: the kind of the
\* master as the deployer is handed it
Configs ==
    {[kind |-> "openshift", deployer |-> "ClusterDeployer", nmasters |-> m, nworkers |-> w,
      mkind |-> "vm", teardown |-> t, ncores |-> c, extport |-> e] :
        m \in 0..MaxMasters, w \in 0..MaxWorkers, t \in BOOLEAN,
        c \in CoreCounts, e \in BOOLEAN}
    \cup
    {[kind |-> "microshift", deployer |-> "ClusterDeployer", nmasters |-> 1, nworkers |-> 0,
      mkind |-> "vm", teardown |-> t, ncores |-> c, extport |-> e] :
        t \in BOOLEAN, c \in CoreCounts, e \in BOOLEAN}
    \cup
    {[kind |-> "iso", deployer |-> d, nmasters |-> 1, nworkers |-> 0,
      mkind |-> k, teardown |-> FALSE, ncores |-> c, extport |-> e] :
        d \in {"ClusterDeployer", "IsoDeployer"}, k \in {"ipu", "marvell-dpu", "bf", "physical"},
        c \in CoreCounts, e \in BOOLEAN}

\* ClusterDeployer.need_external_network: every node of the model is a VM
need_external_network ==
    LET vm_bm == SelectSeq(workers, LAMBDA x : HostOf(x) # "localhost")
        remote_workers == IF ~InSteps(WORKERS_STEP) THEN 0
                          ELSE Len(workers) - Len(worker_vms)
        remote_masters == IF ~InSteps(MASTERS_STEP) THEN 0
                          ELSE Len(masters) - Len(master_vms)
    IN remote_masters # 0 \/ remote_workers # 0 \/ Len(vm_bm) # 0

\* _validate without the check of the external port
_validate_CoresOnly ==
    IF cc.kind \in {"openshift", "microshift"} /\ cc.ncores < MinCores
    THEN "fatal" ELSE "ok"

\* ClusterDeployer._validate: "fatal" when it ends in error_and_exit
_validate ==
    IF cc.kind \in {"openshift", "microshift"}
    THEN IF cc.ncores < MinCores THEN "fatal"
         ELSE IF need_external_network /\ ~cc.extport THEN "fatal"
         ELSE "ok"
    ELSE "ok"

DeployInit ==
    /\ cc \in Configs
    /\ steps \in StepTuples
    /\ stageIdx = 0
    /\ todo = <<>>
    /\ run = "constructing"
    /\ log = <<>>
    /\ futs = [t \in Tasks |-> "none"]
    /\ joined = {}
    /\ status = <<>>
    /\ polled = {}
    /\ allReady = {}

\* the deploy subsystem at rest
DeployIdle ==
    /\ cc = [kind |-> "openshift", deployer |-> "ClusterDeployer", nmasters |-> 0,
             nworkers |-> 0, mkind |-> "vm", teardown |-> FALSE, ncores |-> MinCores,
             extport |-> TRUE]
    /\ steps = <<>>
    /\ stageIdx = 0
    /\ todo = <<>>
    /\ run = "done"
    /\ log = <<>>
    /\ futs = [t \in Tasks |-> "none"]
    /\ joined = {}
    /\ status = <<>>
    /\ polled = {}
    /\ allReady = {}

NStages == Len(main_deploy(FALSE))

\* cda.main_deploy constructs the deployer: ClusterDeployer.__init__ ends with
\* self._validate(); IsoDeployer has no validation of its own
Construct ==
    /\ run = "constructing"
    /\ run' = IF cc.deployer = "ClusterDeployer" /\ _validate = "fatal"
              THEN "fatal" ELSE "running"
    /\ UNCHANGED <<cc, steps, stageIdx, todo, log, futs, joined, status, polled, allReady>>
    /\ UNCHANGED others_deploy

\* the driving thread enters the next stage of main_deploy
EnterStage ==
    /\ run = "running"
    /\ todo = <<>>
    /\ stageIdx < NStages
    /\ stageIdx' = stageIdx + 1
    /\ \E vmsRemain \in BOOLEAN : todo' = main_deploy(vmsRemain)[stageIdx + 1]
    /\ UNCHANGED <<cc, steps, run, log, futs, joined, status, polled, allReady>>
    /\ UNCHANGED others_deploy

\* main_deploy returns
Finish ==
    /\ run = "running"
    /\ todo = <<>>
    /\ stageIdx = NStages
    /\ run' = "done"
    /\ UNCHANGED <<cc, steps, stageIdx, todo, log, futs, joined, status, polled, allReady>>
    /\ UNCHANGED others_deploy

LogEntry(stmt, arg) == [by |-> stmt.by, name |-> stmt.name, arg |-> arg]

\* a collaborator call that returns
Issue ==
    /\ run = "running"
    /\ todo # <<>>
    /\ Head(todo).k = "op"
    /\ log' = Append(log, LogEntry(Head(todo), Head(todo).arg))
    /\ todo' = Tail(todo)
    /\ UNCHANGED <<cc, steps, stageIdx, run, futs, joined, status, polled, allReady>>
    /\ UNCHANGED others_deploy

\* an exception raised by the driver
RaiseStmt ==
    /\ run = "running"
    /\ todo # <<>>
    /\ Head(todo).k = "raise"
    /\ run' = "raised"
    /\ UNCHANGED <<cc, steps, stageIdx, todo, log, futs, joined, status, polled, allReady>>
    /\ UNCHANGED others_deploy

\* h.start_masters / h.start_workers / h.preinstall / node.start: one start
\* task per node is submitted to the pool, one Future each
StartStmt ==
    /\ run = "running"
    /\ todo # <<>>
    /\ Head(todo).k = "start"
    /\ LET stmt == Head(todo)
           ts == StartTasks(stmt.name, stmt.arg)
       IN /\ futs' = [t \in Tasks |-> IF t \in SeqToSet(ts) THEN "running" ELSE futs[t]]
          /\ log' = log \o ForEach(ts, LAMBDA t : [by |-> stmt.by, name |-> "start", arg |-> t])
    /\ todo' = Tail(todo)
    /\ UNCHANGED <<cc, steps, stageIdx, run, joined, status, polled, allReady>>
    /\ UNCHANGED others_deploy

\* a pool thread finishes a task with a Result (returncode 0 or not); pool
\* threads are not cancelled when the driving thread has ended.  The Result of
\* a preinstall task is only logged, never read: it is not told apart.
TaskFinish(t, outcome) ==
    /\ futs[t] = "running"
    /\ t[1] = "preinstall" => outcome = "ok"
    /\ futs' = [futs EXCEPT ![t] = outcome]
    /\ UNCHANGED <<cc, steps, stageIdx, todo, run, log, joined, status, polled, allReady>>
    /\ UNCHANGED others_deploy

Done(t) == futs[t] \in {"ok", "failed"}

\* a join that does not wait for the tasks
JoinStmt_NoWait ==
    /\ run = "running"
    /\ todo # <<>>
    /\ Head(todo).k = "join"
    /\ joined' = joined
    /\ todo' = Tail(todo)
    /\ UNCHANGED <<cc, steps, stageIdx, run, log, futs, status, polled, allReady>>
    /\ UNCHANGED others_deploy

\* `for p in futures: p.result()`: blocks until every task has finished;
\* the Result is not looked at
JoinStmt ==
    /\ run = "running"
    /\ todo # <<>>
    /\ Head(todo).k = "join"
    /\ \A t \in GroupTasks(Head(todo).name) : Done(t)
    /\ joined' = joined \cup GroupTasks(Head(todo).name)
    /\ todo' = Tail(todo)
    /\ UNCHANGED <<cc, steps, stageIdx, run, log, futs, status, polled, allReady>>
    /\ UNCHANGED others_deploy

\* _wait_known_state: `status = dict.fromkeys(names, "")`
PollBeginStmt ==
    /\ run = "running"
    /\ todo # <<>>
    /\ Head(todo).k = "poll_begin"
    /\ status' = [n \in PollNames(Head(todo).name) |-> ""]
    /\ todo' = Tail(todo)
    /\ UNCHANGED <<cc, steps, stageIdx, run, log, futs, joined, polled, allReady>>
    /\ UNCHANGED others_deploy

\* _wait_known_state: the while condition is false, the poll returns
PollReturn ==
    /\ run = "running"
    /\ todo # <<>>
    /\ Head(todo).k = "poll"
    /\ AllKnown(status)
    /\ polled' = polled \cup {Head(todo).name}
    /\ todo' = Tail(todo)
    /\ status' = <<>>
    /\ UNCHANGED <<cc, steps, stageIdx, run, log, futs, joined, allReady>>
    /\ UNCHANGED others_deploy

\* the callback `cb` of _create_masters / _create_workers raises when a
\* finished start task has a non-zero returncode
CbRaises(group) == \E t \in GroupTasks(group) : futs[t] = "failed"

\* what the backend reports for a node while a deploy polls it
PollReports == {"discovering", "known", "error"}

\* the expected nodes that are in the inventory _all_nodes, in order
NodesToDump(names) == SelectSeq(masters \o workers, LAMBDA n : n \in names /\ n \in _all_nodes)

\* _wait_known_state: one pass of the loop body; `new_status` is what the
\* backend reports for each name in this pass.  The local `status` is gone
\* once the function is left (by error_and_exit or by the callback's exception).
PollPass(new_status) ==
    /\ run = "running"
    /\ todo # <<>>
    /\ Head(todo).k = "poll"
    /\ ~AllKnown(status)
    /\ LET st == IF new_status # status THEN new_status ELSE status
           stmt == Head(todo)
       IN /\ allReady' = IF AllKnown(st) THEN allReady \cup {stmt.name} ELSE allReady
          /\ IF AnyError(st)
             THEN \* print_logs of every expected node in _all_nodes, then error_and_exit
                  /\ log' = log \o ForEach(NodesToDump(DOMAIN st),
                                LAMBDA n : [by |-> stmt.by, name |-> "print_logs", arg |-> n])
                  /\ run' = "fatal"
                  /\ status' = <<>>
             ELSE IF CbRaises(stmt.name)
             THEN /\ log' = log
                  /\ run' = "raised"
                  /\ status' = <<>>
             ELSE \* time.sleep(5)
                  /\ log' = log
                  /\ run' = run
                  /\ status' = st
    /\ UNCHANGED <<cc, steps, stageIdx, todo, futs, joined, polled>>
    /\ UNCHANGED others_deploy

DeployNext ==
    \/ Construct
    \/ EnterStage
    \/ Finish
    \/ Issue
    \/ RaiseStmt
    \/ StartStmt
    \/ \E t \in Tasks, outcome \in {"ok", "failed"} : TaskFinish(t, outcome)
    \/ JoinStmt
    \/ PollBeginStmt
    \/ PollReturn
    \/ \E new_status \in [DOMAIN status -> PollReports] : PollPass(new_status)

----------------------------------------------------------------------------
(* Properties of the deploy sequence *)

LogBy(fs) == {i \in DOMAIN log : log[i].by \in fs}

\* the position of each stage in the deploy sequence
StageRank(by) ==
    CASE by \in {"_preconfig", "IsoDeployer._preconfig"} -> 1
      [] by = "teardown_workers" -> 2
      [] by = "teardown_masters" -> 3
      [] by \in {"_deploy_cluster", "_deploy_master", "_create_cluster"} -> 4
      [] by = "_create_masters" -> 5
      [] by = "_create_workers" -> 6
      [] by \in {"_postconfig", "IsoDeployer._postconfig"} -> 7

\* the steps that gate each stage: a stage issues operations only when one of
\* them is selected.  Worker teardown is gated by the workers step or the
\* masters step (it precedes the master teardown); every other stage by its own.
StageSteps(by) ==
    CASE by \in {"_preconfig", "IsoDeployer._preconfig"} -> {PRE_STEP}
      [] by = "teardown_workers" -> {WORKERS_STEP, MASTERS_STEP}
      [] by = "teardown_masters" -> {MASTERS_STEP}
      [] by \in {"_deploy_cluster", "_deploy_master", "_create_cluster"} -> {MASTERS_STEP}
      [] by = "_create_masters" -> {MASTERS_STEP}
      [] by = "_create_workers" -> {WORKERS_STEP}
      [] by \in {"_postconfig", "IsoDeployer._postconfig"} -> {POST_STEP}

MasterProvisioning == {"_create_cluster", "_create_masters", "_deploy_cluster", "_deploy_master"}

\* C2: when the masters step is not selected, no cluster-creation or
\* master-provisioning operation is ever issued, whatever the cluster kind and
\* the number of configured masters.
C2_NoMasterOpsWithoutStep ==
    ~InSteps(MASTERS_STEP) => LogBy(MasterProvisioning) = {}

\* a finished openshift deploy with masters configured and the masters step
\* unselected that provisioned workers
C2_Witness ==
    /\ run = "done"
    /\ ~InSteps(MASTERS_STEP)
    /\ cc.nmasters > 0
    /\ LogBy({"_create_workers"}) # {}

IsWorkerStart(e) == e.name = "start" /\ e.by = "_create_workers" /\ e.arg[1] = "worker"

\* C3: in an openshift deploy with the masters and workers steps selected, a
\* worker start is dispatched only after a status snapshot of the known-state
\* poll showed every master ready.
C3_WorkersAfterMastersReady ==
    (cc.kind = "openshift" /\ ~cc.teardown /\ InSteps(MASTERS_STEP) /\ InSteps(WORKERS_STEP))
        => \A i \in DOMAIN log : IsWorkerStart(log[i]) => "masters" \in allReady

\* a worker start has been dispatched in such a deploy
C3_Witness ==
    /\ cc.kind = "openshift" /\ ~cc.teardown
    /\ InSteps(MASTERS_STEP) /\ InSteps(WORKERS_STEP)
    /\ \E i \in DOMAIN log : IsWorkerStart(log[i])

\* the function `by` has been entered and has returned
PhaseReturned(by) ==
    /\ run \in {"running", "done"}
    /\ LogBy({by}) # {}
    /\ \A j \in DOMAIN todo : todo[j].by # by

\* C4: when a provisioning phase has returned, every start task it
\* dispatched to the pool has finished and has been joined; so no later
\* operation is issued while one of its tasks is running.
C4_TasksJoinedAtPhaseEnd ==
    \A by \in {"_create_masters", "_create_workers", "_deploy_cluster", "_deploy_master"} :
        PhaseReturned(by) =>
            \A i \in DOMAIN log :
                (log[i].name = "start" /\ log[i].by = by)
                    => (Done(log[i].arg) /\ log[i].arg \in joined)

\* master provisioning dispatched two start tasks and has returned, and the
\* worker phase has issued operations
C4_Witness ==
    /\ PhaseReturned("_create_masters")
    /\ Cardinality({i \in DOMAIN log : log[i].name = "start" /\ log[i].by = "_create_masters"}) >= 2
    /\ LogBy({"_create_workers"}) # {}

\* C23: in a deploy (teardown as the prelude, force = false) of a cluster
\* with no masters configured, neither the worker teardown nor the master
\* teardown issues any operation, whatever steps are selected.
C23_PreludeSkippedWithoutMasters ==
    (cc.deployer = "ClusterDeployer" /\ ~cc.teardown /\ cc.nmasters = 0)
        => LogBy({"teardown_workers", "teardown_masters"}) = {}

\* C24: teardown_masters issues no operation when the cluster kind is not
\* openshift, also when forced, nor when the masters step is not selected.
C24_NoMasterTeardownForOtherKinds ==
    (cc.kind # "openshift" \/ ~InSteps(MASTERS_STEP))
        => LogBy({"teardown_masters"}) = {}

\* a forced teardown of a microshift cluster with the masters step selected
\* has returned
C24_Witness ==
    /\ run = "done"
    /\ cc.teardown
    /\ cc.kind = "microshift"
    /\ InSteps(MASTERS_STEP)

\* the prelude has run: the deploy stage has been entered
PreludeDone == stageIdx >= 4

\* C25: in a deploy of an openshift cluster with masters configured and only
\* the workers step selected, no cluster creation, master provisioning or
\* master teardown operation is issued, and the worker teardown has run in
\* full (node teardown on every host with workers, DHCP removal, every
\* worker deleted from the cluster API and the backend) before the first
\* operation of worker provisioning.
C25_WorkersOnlyDeploy ==
    (/\ cc.kind = "openshift" /\ cc.deployer = "ClusterDeployer" /\ ~cc.teardown
     /\ cc.nmasters > 0 /\ steps = <<WORKERS_STEP>>) =>
        /\ LogBy(MasterProvisioning \cup {"teardown_masters"}) = {}
        /\ (PreludeDone \/ LogBy({"_create_workers"}) # {}) =>
              LET td == {i \in LogBy({"teardown_workers"}) :
                            \A j \in LogBy({"_create_workers"}) : i < j}
                  Did(name, arg) == \E i \in td : log[i].name = name /\ log[i].arg = arg
              IN /\ \A k \in DOMAIN _all_hosts_with_workers :
                        Did("teardown_nodes", Host(_all_hosts_with_workers[k]))
                 /\ Did("remove_dhcp_entries", NoArg)
                 /\ \A k \in DOMAIN workers :
                        Did("delete_node", workers[k]) /\ Did("delete_host", workers[k])

\* such a deploy has finished and has provisioned a worker
C25_Witness ==
    /\ run = "done"
    /\ cc.kind = "openshift" /\ ~cc.teardown
    /\ cc.nmasters > 0 /\ cc.nworkers > 0
    /\ steps = <<WORKERS_STEP>>
    /\ \E i \in DOMAIN log : IsWorkerStart(log[i])

\* the operations of teardown_masters issued so far, in order
MasterTeardownLog == SelectSeq(log, LAMBDA e : e.by = "teardown_masters")

\* C26 as stated: backend records (cluster, infra-envs), then DNS and bridge
\* entries, then the node sets, then the disk images, then the unlinking,
\* then the credentials.
C26_DependencyOrder ==
    LET rank(name) ==
            CASE name \in {"ensure_cluster_deleted", "ensure_infraenv_deleted"} -> 1
              [] name \in {"update_dnsmasq", "remove_dhcp_entries"} -> 2
              [] name = "teardown_nodes" -> 3
              [] name = "virsh_pool_ensure_removed" -> 4
              [] name = "ensure_not_linked_to_network" -> 5
              [] name = "delete_kubeconfig_and_secrets" -> 6
        l == MasterTeardownLog
    IN \A i \in DOMAIN l : i > 1 => rank(l[i - 1].name) <= rank(l[i].name)

\* C26: master teardown deletes the cluster record first, then removes the
\* DNS entries, then tears down the node sets of every host, then deletes the
\* infra-envs, then removes the DHCP entries, then the disk images, then
\* unlinks the hosts from the bridge, and deletes the credentials last.
C26_TeardownOrder ==
    LET rank(name) ==
            CASE name = "ensure_cluster_deleted" -> 1
              [] name = "update_dnsmasq" -> 2
              [] name = "teardown_nodes" -> 3
              [] name = "ensure_infraenv_deleted" -> 4
              [] name = "remove_dhcp_entries" -> 5
              [] name = "virsh_pool_ensure_removed" -> 6
              [] name = "ensure_not_linked_to_network" -> 7
              [] name = "delete_kubeconfig_and_secrets" -> 8
        l == MasterTeardownLog
    IN \A i \in DOMAIN l : i > 1 => rank(l[i - 1].name) <= rank(l[i].name)

\* a master teardown over two hosts has issued all its operations
C26_Witness ==
    /\ Len(_all_hosts_with_masters) = 2
    /\ \E i \in DOMAIN MasterTeardownLog :
            MasterTeardownLog[i].name = "delete_kubeconfig_and_secrets"
    /\ \E i \in DOMAIN MasterTeardownLog :
            MasterTeardownLog[i].name = "virsh_pool_ensure_removed"

\* the node starts dispatched by a provisioning function
NodeStarts(by) ==
    {i \in DOMAIN log : log[i].by = by /\ log[i].name = "start"
                            /\ log[i].arg[1] \in {"master", "worker"}}

\* C27: in master provisioning and in worker provisioning, before the first
\* node start is dispatched, the bridge of every hosting host has been
\* configured, the DHCP entries have been set up and every hosting host has
\* been linked to the bridge.
C27_HostsSetUpBeforeStart ==
    \A by \in {"_create_masters", "_create_workers"} :
        LET hosts == IF by = "_create_masters" THEN _all_hosts_with_masters
                                               ELSE _all_hosts_with_workers
            Before(name, arg) ==
                \E j \in DOMAIN log :
                    /\ log[j].by = by /\ log[j].name = name /\ log[j].arg = arg
                    /\ \A i \in NodeStarts(by) : j < i
        IN NodeStarts(by) # {} =>
              /\ \A k \in DOMAIN hosts : Before("configure_bridge", Host(hosts[k]))
              /\ Before("setup_dhcp_entries", NoArg)
              /\ \A k \in DOMAIN hosts : Before("ensure_linked_to_network", Host(hosts[k]))

\* masters on two hosts and a worker have been started
C27_Witness ==
    /\ Len(_all_hosts_with_masters) = 2
    /\ Cardinality(NodeStarts("_create_masters")) = 2
    /\ NodeStarts("_create_workers") # {}

\* C28: in master provisioning a host is linked to the network only when
\* the install has completed: the known-state poll has returned, the
\* cluster install has been waited for and the start tasks are joined.
C28_LinkedOnlyAfterInstall ==
    \A i \in DOMAIN log :
        (log[i].by = "_create_masters" /\ log[i].name = "ensure_linked_to_network") =>
            /\ "masters" \in polled
            /\ \E j \in 1..(i - 1) : log[j].by = "_create_masters" /\ log[j].name = "wait_cluster"
            /\ GroupTasks("masters") \subseteq joined

\* C29: when master (worker) provisioning has returned without an error,
\* no start task of its nodes has ended with a non-zero return code.
C29_JoinSurfacesFailures ==
    /\ PhaseReturned("_create_masters") => \A t \in GroupTasks("masters") : futs[t] # "failed"
    /\ PhaseReturned("_create_workers") => \A t \in GroupTasks("workers") : futs[t] # "failed"

\* C30: for an openshift or microshift cluster, when the local host has
\* fewer than 28 cores, or an external network is needed and the external
\* interface cannot be resolved, construction ends fatally: no stage is
\* entered, no operation is issued and no task is started.
C30_PreflightFatalBeforePhases ==
    (/\ cc.deployer = "ClusterDeployer"
     /\ cc.kind \in {"openshift", "microshift"}
     /\ cc.ncores < 28 \/ (need_external_network /\ ~cc.extport)) =>
        /\ run \in {"constructing", "fatal"}
        /\ stageIdx = 0 /\ todo = <<>> /\ log = <<>>
        /\ \A t \in Tasks : futs[t] = "none"

\* construction has ended fatally for a host with enough cores whose
\* external interface is needed by a worker and cannot be resolved
C30_Witness ==
    /\ run = "fatal"
    /\ stageIdx = 0
    /\ cc.ncores >= 28
    /\ cc.nworkers > 0
    /\ ~cc.extport

\* C40: for an iso cluster whose master kind configuration validation
\* accepts, a deploy never ends in the 'unexpected master kind' error.
C40_ValidatedIsoMasterHandled ==
    (cc.kind = "iso" /\ IsoMasterAccepted(cc.mkind)) =>
        ~(/\ run = "raised"
          /\ todo # <<>>
          /\ Head(todo).k = "raise"
          /\ Head(todo).name = "unexpected master kind")

----------------------------------------------------------------------------
(* The known-state poll, statement by statement                             *)
(* (ClusterDeployer._wait_known_state)                                      *)

MaxNames == 2
MaxPasses == 2

k_names == [i \in 1..k_n |-> i]

KnownInit ==
    /\ k_n \in 0..MaxNames
    /\ k_inv \in SUBSET (1..k_n)
    /\ k_pc = "while"
    /\ k_status = [i \in 1..k_n |-> ""]
    /\ k_new = <<>>
    /\ k_passes = 0
    /\ k_last = <<>>
    /\ k_errSnap = FALSE
    /\ k_dumped = <<>>
    /\ k_cont = {}

KnownIdle ==
    /\ k_n = 0
    /\ k_inv = {}
    /\ k_pc = "returned"
    /\ k_status = <<>>
    /\ k_new = <<>>
    /\ k_passes = 0
    /\ k_last = <<>>
    /\ k_errSnap = FALSE
    /\ k_dumped = <<>>
    /\ k_cont = {}

\* the loop condition with `any` in place of `all`
KLoopExits_Any == k_n = 0 \/ \E i \in 1..k_n : k_status[i] = "known"

\* the loop condition if an empty status dict kept the loop going
KLoopExits_NonEmpty == k_n > 0 /\ AllKnown(k_status)

\* `while not all(v == "known" for v in status.values())`: the loop is left
KLoopExits == AllKnown(k_status)

\* the while condition is evaluated: the poll returns or begins a pass
KWhile ==
    /\ k_pc = "while"
    /\ IF KLoopExits
       THEN /\ k_pc' = "returned"
            /\ UNCHANGED <<k_new, k_passes>>
       ELSE /\ k_passes < MaxPasses
            /\ k_pc' = "lookup"
            /\ k_new' = <<>>
            /\ k_passes' = k_passes + 1
    /\ UNCHANGED <<k_n, k_inv, k_status, k_last, k_errSnap, k_dumped, k_cont>>
    /\ UNCHANGED others_known

\* `self._get_status(n)` for the next name: the backend reports v
KLookup(v) ==
    /\ k_pc = "lookup"
    /\ Len(k_new) < k_n
    /\ k_new' = Append(k_new, v)
    /\ UNCHANGED <<k_n, k_inv, k_pc, k_status, k_passes, k_last, k_errSnap, k_dumped, k_cont>>
    /\ UNCHANGED others_known

\* `if new_status != status: status = new_status`
KCompare ==
    /\ k_pc = "lookup"
    /\ Len(k_new) = k_n
    /\ k_status' = IF k_new # k_status THEN k_new ELSE k_status
    /\ k_last' = k_new
    /\ k_errSnap' = (k_errSnap \/ AnyError(k_new))
    /\ k_pc' = "errcheck"
    /\ UNCHANGED <<k_n, k_inv, k_new, k_passes, k_dumped, k_cont>>
    /\ UNCHANGED others_known

\* the error check with `all` in place of `any`
KErrorSeen_All == \A i \in 1..k_n : k_status[i] = "error"

\* `any(v == "error" for v in status.values())`
KErrorSeen == AnyError(k_status)

\* `if any(v == "error" ...)`
KErrCheck ==
    /\ k_pc = "errcheck"
    /\ k_pc' = IF KErrorSeen THEN "dump" ELSE "cb"
    /\ UNCHANGED <<k_n, k_inv, k_status, k_new, k_passes, k_last, k_errSnap, k_dumped, k_cont>>
    /\ UNCHANGED others_known

\* `for e in names: k8s_node = self._all_nodes.get(e); if k8s_node is not None: k8s_node.print_logs()`
KDump ==
    /\ k_pc = "dump"
    /\ k_dumped' = SelectSeq(k_names, LAMBDA e : e \in k_inv)
    /\ k_pc' = "exit"
    /\ UNCHANGED <<k_n, k_inv, k_status, k_new, k_passes, k_last, k_errSnap, k_cont>>
    /\ UNCHANGED others_known

\* `logger.error_and_exit(...)`
KExit ==
    /\ k_pc = "exit"
    /\ k_pc' = "fatal"
    /\ UNCHANGED <<k_n, k_inv, k_status, k_new, k_passes, k_last, k_errSnap, k_dumped, k_cont>>
    /\ UNCHANGED others_known

\* `cb()`: the callback returns or raises
KCb(raises) ==
    /\ k_pc = "cb"
    /\ k_pc' = IF raises THEN "raised" ELSE "sleep"
    /\ UNCHANGED <<k_n, k_inv, k_status, k_new, k_passes, k_last, k_errSnap, k_dumped, k_cont>>
    /\ UNCHANGED others_known

\* `time.sleep(5)`
KSleep ==
    /\ k_pc = "sleep"
    /\ k_pc' = "while"
    /\ k_cont' = k_cont \cup ({k_last[i] : i \in 1..Len(k_last)} \ {"known"})
    /\ UNCHANGED <<k_n, k_inv, k_status, k_new, k_passes, k_last, k_errSnap, k_dumped>>
    /\ UNCHANGED others_known

KnownNext ==
    \/ KWhile
    \/ \E v \in BackendStatus : KLookup(v)
    \/ KCompare
    \/ KErrCheck
    \/ KDump
    \/ KExit
    \/ \E raises \in BOOLEAN : KCb(raises)
    \/ KSleep

\* the poll with a backend in which no node ever reports "error" and every
\* node reports "known" from the last pass of the model on, and with a
\* callback that never raises
KnownReadyNext ==
    \/ KWhile
    \/ \E v \in BackendStatus \ {"error"} :
            /\ k_passes = MaxPasses => v = "known"
            /\ KLookup(v)
    \/ KCompare
    \/ KErrCheck
    \/ KCb(FALSE)
    \/ KSleep

\* C5: once a pass of the known-state poll has taken a status snapshot in
\* which some expected node reports "error", the poll is fatal in that pass:
\* it goes on only to dump the logs and exit (no callback, no sleep, no
\* further status lookup), and when it exits the logs of every expected node
\* of the inventory have been dumped.
C5_ErrorIsFatalInSamePass ==
    /\ k_errSnap => k_pc \in {"errcheck", "dump", "exit", "fatal"}
    /\ k_pc \in {"exit", "fatal"} => k_dumped = SelectSeq(k_names, LAMBDA e : e \in k_inv)
    /\ k_pc = "fatal" => k_errSnap

\* the poll ended fatally on the snapshot {1: "known", 2: "error"}, node 2
\* being the one in the inventory
C5_Witness ==
    /\ k_pc = "fatal"
    /\ k_last = <<"known", "error">>
    /\ k_inv = {2}
    /\ k_dumped = <<2>>

\* C6: the known-state poll returns only when its most recent status
\* snapshot shows every expected node as "known"; after a snapshot with an
\* unknown node (None) or a node in another status it goes on polling.
C6_ReturnsOnlyWhenAllKnown ==
    (k_pc = "returned" /\ k_n > 0) =>
        /\ Len(k_last) = k_n
        /\ \A i \in 1..k_n : k_last[i] = "known"

\* the poll returned for two nodes after a pass that saw an unknown node and
\* a node in another status
C6_Witness ==
    /\ k_pc = "returned"
    /\ k_n = 2
    /\ k_passes = 2
    /\ k_cont = {None, "discovering"}

\* C36: with a backend whose nodes all report "known" from some pass on
\* and never "error", and a callback that never raises, the poll returns;
\* and with no expected node it returns without a pass and without a status
\* lookup.
C36_PollTerminates ==
    /\ <>(k_pc = "returned")
    /\ []((k_n = 0 /\ k_pc = "returned") => (k_passes = 0 /\ k_new = <<>> /\ k_last = <<>>))
    /\ []((k_n = 0) => k_pc \in {"while", "returned"})

\* the poll returned for two nodes in its second pass, after a pass that
\* saw an unknown node and a node in another status
C36_Witness ==
    /\ k_pc = "returned"
    /\ k_n = 2
    /\ k_passes = MaxPasses
    /\ k_cont = {None, "discovering"}

----------------------------------------------------------------------------
(* Host._run_remote and Host.ssh_connect_looped (src/host.py)              *)
(* Threads of the worker pool run commands through the one Host object of   *)
(* a hostname.  The environment drops the connection and decides whether a  *)
(* login succeeds.                                                          *)

MaxDrops == 2       \* connection losses
MaxBackoffs == 2    \* backoff sleeps that fit in the timeout of ssh_connect_looped

\* a private key file: not there, there but KeyLogin(...) raises, or loaded
KeyFile == {"absent", "unloadable", "ok"}

\* the arguments of ssh_connect and what it finds at rsa_path, ed25519_path
ConnectInputs ==
    [password : BOOLEAN, rsa : KeyFile, ed25519 : KeyFile, discover_auth : BOOLEAN]

\* the list ssh_connect builds, as a mirror image: auto-discovery first
ssh_connect_logins_AutoFirst(in) ==
    (IF in.discover_auth THEN <<"auto">> ELSE <<>>)
    \o (IF in.ed25519 = "ok" THEN <<"ed25519">> ELSE <<>>)
    \o (IF in.rsa = "ok" THEN <<"rsa">> ELSE <<>>)
    \o (IF in.password THEN <<"password">> ELSE <<>>)

\* self._logins = []; then, in this order, append PasswordLogin if password
\* is not None, KeyLogin(rsa_path) and KeyLogin(ed25519_path) if the file
\* exists and the constructor does not raise, AutoLogin if discover_auth
ssh_connect_logins(in) ==
    (IF in.password THEN <<"password">> ELSE <<>>)
    \o (IF in.rsa = "ok" THEN <<"rsa">> ELSE <<>>)
    \o (IF in.ed25519 = "ok" THEN <<"ed25519">> ELSE <<>>)
    \o (IF in.discover_auth THEN <<"auto">> ELSE <<>>)

Threads == {"t1", "t2"}

NoCall == 0         \* no exec_command call: nothing bound, nothing captured

RunInit ==
    /\ r_pc = [t \in Threads |-> "idle"]
    /\ r_up = TRUE
    /\ r_connects = 0
    /\ r_drops = 0
    /\ r_in \in ConnectInputs
    /\ r_logins = ssh_connect_logins(r_in)
    /\ r_logins # <<>>
    /\ r_nlogins = Len(r_logins)
    /\ r_hist = [t \in Threads |-> <<>>]
    /\ r_execs = [t \in Threads |-> 0]
    /\ r_fails = [t \in Threads |-> 0]
    /\ r_chan = [t \in Threads |-> NoCall]
    /\ r_result = [t \in Threads |-> NoCall]
    /\ r_err = [t \in Threads |-> None]
    /\ r_li = [t \in Threads |-> 0]
    /\ r_slept = [t \in Threads |-> 0]

RunIdle ==
    /\ r_pc = [t \in Threads |-> "idle"]
    /\ r_up = TRUE
    /\ r_connects = 0
    /\ r_drops = 0
    /\ r_nlogins = 1
    /\ r_in = [password |-> TRUE, rsa |-> "absent", ed25519 |-> "absent",
               discover_auth |-> FALSE]
    /\ r_logins = <<"password">>
    /\ r_hist = [t \in Threads |-> <<>>]
    /\ r_execs = [t \in Threads |-> 0]
    /\ r_fails = [t \in Threads |-> 0]
    /\ r_chan = [t \in Threads |-> NoCall]
    /\ r_result = [t \in Threads |-> NoCall]
    /\ r_err = [t \in Threads |-> None]
    /\ r_li = [t \in Threads |-> 0]
    /\ r_slept = [t \in Threads |-> 0]

\* the target reboots or the network fails: the session can open no channel
Drop ==
    /\ r_up
    /\ r_drops < MaxDrops
    /\ r_drops' = r_drops + 1
    /\ r_up' = FALSE
    /\ UNCHANGED <<r_pc, r_connects, r_nlogins, r_in, r_logins, r_execs, r_fails, r_chan,
                   r_result, r_err, r_li, r_slept, r_hist>>
    /\ UNCHANGED others_run

\* Host.run on a remote host calls _run_remote; the command string is built
\* (lines 500-521) and the retry loop is entered
RunRemote(t) ==
    /\ r_pc[t] = "idle"
    /\ r_pc' = [r_pc EXCEPT ![t] = "exec"]
    /\ UNCHANGED <<r_up, r_connects, r_drops, r_nlogins, r_in, r_logins, r_execs, r_fails,
                   r_chan, r_result, r_err, r_li, r_slept, r_hist>>
    /\ UNCHANGED others_run

\* _, stdout, stderr = self._host.exec_command(cmd); break
ExecOk(t) ==
    /\ r_pc[t] = "exec"
    /\ r_up
    /\ r_execs' = [r_execs EXCEPT ![t] = @ + 1]
    /\ r_chan' = [r_chan EXCEPT ![t] = r_execs[t] + 1]
    /\ r_pc' = [r_pc EXCEPT ![t] = "capture"]
    /\ UNCHANGED <<r_up, r_connects, r_drops, r_nlogins, r_in, r_logins, r_fails, r_result,
                   r_err, r_li, r_slept, r_hist>>
    /\ UNCHANGED others_run

\* what an exec_command call that raised leads to: a failed Result returned
\* to the caller instead of the reconnect
ExecFailed_ReturnsFailure(t) ==
    /\ r_pc' = [r_pc EXCEPT ![t] = "returned"]
    /\ UNCHANGED <<r_li, r_slept, r_hist>>

\* except Exception: log; self.ssh_connect_looped(self._logins)
\* (first_attempt = True; end_time = time.monotonic() + timeout)
ExecFailed(t) ==
    /\ r_pc' = [r_pc EXCEPT ![t] = "connect"]
    /\ r_li' = [r_li EXCEPT ![t] = 0]
    /\ r_slept' = [r_slept EXCEPT ![t] = 0]
    /\ r_hist' = [r_hist EXCEPT ![t] = <<>>]

\* exec_command raises: the session is down
ExecFail(t) ==
    /\ r_pc[t] = "exec"
    /\ ~r_up
    /\ r_execs' = [r_execs EXCEPT ![t] = @ + 1]
    /\ r_fails' = [r_fails EXCEPT ![t] = @ + 1]
    /\ ExecFailed(t)
    /\ UNCHANGED <<r_up, r_connects, r_drops, r_nlogins, r_in, r_logins, r_chan, r_result,
                   r_err>>
    /\ UNCHANGED others_run

\* the outer loop without its deadline: while True
ConnectLoop_NoDeadline(t) ==
    /\ r_pc[t] = "connect"
    /\ r_pc' = [r_pc EXCEPT ![t] = "login"]
    /\ r_li' = [r_li EXCEPT ![t] = 1]
    /\ r_hist' = [r_hist EXCEPT ![t] = Append(@, 1)]
    /\ UNCHANGED <<r_up, r_connects, r_drops, r_nlogins, r_in, r_logins, r_execs, r_fails,
                   r_chan, r_result, r_err, r_slept>>
    /\ UNCHANGED others_run

\* while time.monotonic() < end_time: for login in logins:
ConnectLoop(t) ==
    /\ r_pc[t] = "connect"
    /\ r_slept[t] < MaxBackoffs
    /\ r_pc' = [r_pc EXCEPT ![t] = "login"]
    /\ r_li' = [r_li EXCEPT ![t] = 1]
    /\ r_hist' = [r_hist EXCEPT ![t] = Append(@, 1)]
    /\ UNCHANGED <<r_up, r_connects, r_drops, r_nlogins, r_in, r_logins, r_execs, r_fails,
                   r_chan, r_result, r_err, r_slept>>
    /\ UNCHANGED others_run

\* the while condition is false: raise ConnectionError, which leaves
\* _run_remote too (the except clause that called is not inside a try)
ConnectTimeout(t) ==
    /\ r_pc[t] = "connect"
    /\ r_slept[t] >= MaxBackoffs
    /\ r_pc' = [r_pc EXCEPT ![t] = "raised"]
    /\ r_err' = [r_err EXCEPT ![t] = "ConnectionError"]
    /\ UNCHANGED <<r_up, r_connects, r_drops, r_nlogins, r_in, r_logins, r_execs, r_fails,
                   r_chan, r_result, r_li, r_slept, r_hist>>
    /\ UNCHANGED others_run

\* self._host = login.login(); return: back in _run_remote's while True
LoginOk(t) ==
    /\ r_pc[t] = "login"
    /\ r_up' = TRUE
    /\ r_connects' = r_connects + 1
    /\ r_pc' = [r_pc EXCEPT ![t] = "exec"]
    /\ UNCHANGED <<r_drops, r_nlogins, r_in, r_logins, r_execs, r_fails, r_chan, r_result,
                   r_err, r_li, r_slept, r_hist>>
    /\ UNCHANGED others_run

\* a recoverable login failure handled without the backoff sleep
LoginFail_NoBackoff(t) ==
    /\ r_pc[t] = "login"
    /\ IF r_li[t] < r_nlogins
         THEN /\ r_li' = [r_li EXCEPT ![t] = @ + 1]
              /\ r_hist' = [r_hist EXCEPT ![t] = Append(@, r_li[t] + 1)]
              /\ UNCHANGED r_pc
         ELSE /\ r_pc' = [r_pc EXCEPT ![t] = "connect"]
              /\ UNCHANGED <<r_li, r_hist>>
    /\ UNCHANGED <<r_up, r_connects, r_drops, r_nlogins, r_in, r_logins, r_execs, r_fails,
                   r_chan, r_result, r_err, r_slept>>
    /\ UNCHANGED others_run

\* login() raises an authentication or network error: log, time.sleep(10),
\* and the for loop goes on with the next login
LoginFail(t) ==
    /\ r_pc[t] = "login"
    /\ r_slept' = [r_slept EXCEPT ![t] = @ + 1]
    /\ IF r_li[t] < r_nlogins
         THEN /\ r_li' = [r_li EXCEPT ![t] = @ + 1]
              /\ r_hist' = [r_hist EXCEPT ![t] = Append(@, r_li[t] + 1)]
              /\ UNCHANGED r_pc
         ELSE /\ r_pc' = [r_pc EXCEPT ![t] = "connect"]
              /\ UNCHANGED <<r_li, r_hist>>
    /\ UNCHANGED <<r_up, r_connects, r_drops, r_nlogins, r_in, r_logins, r_execs, r_fails,
                   r_chan, r_result, r_err>>
    /\ UNCHANGED others_run

\* any other exception handled with the backoff sleep before it is raised
LoginAbort_SleepsFirst(t) ==
    /\ r_pc[t] = "login"
    /\ r_slept' = [r_slept EXCEPT ![t] = @ + 1]
    /\ r_pc' = [r_pc EXCEPT ![t] = "raised"]
    /\ r_err' = [r_err EXCEPT ![t] = "Exception"]
    /\ UNCHANGED <<r_up, r_connects, r_drops, r_nlogins, r_in, r_logins, r_execs, r_fails,
                   r_chan, r_result, r_li, r_hist>>
    /\ UNCHANGED others_run

\* login() raises any other exception: logger.exception(...); raise e
LoginAbort(t) ==
    /\ r_pc[t] = "login"
    /\ r_pc' = [r_pc EXCEPT ![t] = "raised"]
    /\ r_err' = [r_err EXCEPT ![t] = "Exception"]
    /\ UNCHANGED <<r_up, r_connects, r_drops, r_nlogins, r_in, r_logins, r_execs, r_fails,
                   r_chan, r_result, r_li, r_slept, r_hist>>
    /\ UNCHANGED others_run

\* return self.ssh_run_poll_result(stdout, stderr)
RunReturn(t) ==
    /\ r_pc[t] = "capture"
    /\ r_result' = [r_result EXCEPT ![t] = r_chan[t]]
    /\ r_pc' = [r_pc EXCEPT ![t] = "returned"]
    /\ UNCHANGED <<r_up, r_connects, r_drops, r_nlogins, r_in, r_logins, r_execs, r_fails,
                   r_chan, r_err, r_li, r_slept, r_hist>>
    /\ UNCHANGED others_run

RunNext ==
    \/ Drop
    \/ \E t \in Threads : RunRemote(t)
    \/ \E t \in Threads : ExecOk(t)
    \/ \E t \in Threads : ExecFail(t)
    \/ \E t \in Threads : ConnectLoop(t)
    \/ \E t \in Threads : ConnectTimeout(t)
    \/ \E t \in Threads : LoginOk(t)
    \/ \E t \in Threads : LoginFail(t)
    \/ \E t \in Threads : LoginAbort(t)
    \/ \E t \in Threads : RunReturn(t)

\* the thread is inside ssh_connect_looped
Reconnecting(t) == r_pc[t] \in {"connect", "login"}

\* C7: a command returns only the Result of the one exec_command call that
\* opened a channel, which is the call after its last failure: it made
\* r_fails + 1 calls, none of the failed calls produced the Result, and it
\* leaves with an exception only when a reconnect itself did not succeed.
C7_RetryYieldsSuccessResult ==
    \A t \in Threads :
        /\ r_pc[t] = "returned" =>
              /\ r_execs[t] = r_fails[t] + 1
              /\ r_result[t] = r_execs[t]
              /\ r_err[t] = None
        /\ r_pc[t] = "raised" => (r_err[t] # None /\ r_result[t] = NoCall)
        /\ r_pc[t] \in {"exec", "capture"} => r_err[t] = None

\* a command returned after its channel open failed twice, each failure
\* followed by a reconnect that needed a second login attempt
C7_Witness ==
    \E t \in Threads :
        /\ r_pc[t] = "returned"
        /\ r_fails[t] = 2
        /\ r_result[t] = 3
        /\ r_slept[t] > 0

\* C8: at most one thread is inside the connect protocol of the Host at any
\* time.
C8_ReconnectsMutuallyExclusive ==
    Cardinality({t \in Threads : Reconnecting(t)}) <= 1

\* the login attempts of the current ssh_connect_looped call that have failed
\* with a recoverable error
FailedAttempts(t) ==
    IF r_pc[t] = "connect" \/ r_err[t] = "ConnectionError"
      THEN Len(r_hist[t])
      ELSE IF r_hist[t] = <<>> THEN 0 ELSE Len(r_hist[t]) - 1

\* C11 as claimed: every attempt that follows a failed attempt is made with
\* the first login of the list.
C11_RestartsFromFirst ==
    \A t \in Threads : \A k \in 2..Len(r_hist[t]) : r_hist[t][k] = 1

\* C11 amended: every failed attempt is followed by one backoff sleep, and
\* the next attempt is made with the next login of the list; only after the
\* last login has failed does the next attempt use the first login.
C11_NextLoginAfterBackoff ==
    \A t \in Threads :
        /\ r_slept[t] = FailedAttempts(t)
        /\ r_hist[t] # <<>> => r_hist[t][1] = 1
        /\ \A k \in 2..Len(r_hist[t]) :
              r_hist[t][k] = IF r_hist[t][k - 1] < r_nlogins THEN r_hist[t][k - 1] + 1 ELSE 1

\* one thread tries the second of three logins after the first failed and
\* one sleep, another has logged in with the third after two failures
C11_Witness ==
    \E t, u \in Threads :
        /\ r_pc[t] = "login" /\ r_hist[t] = <<1, 2>> /\ r_slept[t] = 1
        /\ r_pc[u] = "exec" /\ r_hist[u] = <<1, 2, 3>> /\ r_slept[u] = 2
        /\ r_nlogins = 3

\* a step of ssh_connect_looped by thread t; every login attempt returns
ConnectStep(t) ==
    \/ ConnectLoop(t)
    \/ ConnectTimeout(t)
    \/ LoginOk(t)
    \/ LoginFail(t)
    \/ LoginAbort(t)

\* C12: the connect protocol terminates.  A pass over the logins begins
\* only before the deadline; the protocol is left by a successful login, by
\* the ConnectionError raised once the deadline has passed, or by the
\* exception of a login that is not recoverable; and a thread that is in the
\* protocol eventually leaves it.
C12_ConnectTerminates ==
    /\ [][\A t \in Threads :
            /\ (r_pc[t] = "connect" /\ r_pc'[t] = "login") => r_slept[t] < MaxBackoffs
            /\ (Reconnecting(t) /\ ~Reconnecting(t)') =>
                  \/ r_pc[t] = "login" /\ r_pc'[t] = "exec" /\ r_up'
                  \/ /\ r_pc[t] = "connect" /\ r_pc'[t] = "raised"
                     /\ r_err'[t] = "ConnectionError" /\ r_slept[t] >= MaxBackoffs
                  \/ r_pc[t] = "login" /\ r_pc'[t] = "raised" /\ r_err'[t] = "Exception"]_vars
    /\ \A t \in Threads : Reconnecting(t) ~> ~Reconnecting(t)

\* the protocol ended with ConnectionError after a pass over three logins
\* that began before the deadline and ended after it
C12_Witness ==
    \E t \in Threads :
        /\ r_pc[t] = "raised"
        /\ r_err[t] = "ConnectionError"
        /\ r_hist[t] = <<1, 2, 3>>
        /\ r_slept[t] > MaxBackoffs

\* C13: the login list is the fixed order password, RSA key, Ed25519 key,
\* auto-discovery, restricted to the password if one was supplied, the keys
\* whose file is present and loads, and auto-discovery if enabled; and the
\* attempts of a pass are the logins of the list, from the first, in order.
C13_LoginsInFixedOrder ==
    /\ r_logins = SelectSeq(<<"password", "rsa", "ed25519", "auto">>,
                            LAMBDA kind : \/ kind = "password" /\ r_in.password
                                          \/ kind = "rsa" /\ r_in.rsa = "ok"
                                          \/ kind = "ed25519" /\ r_in.ed25519 = "ok"
                                          \/ kind = "auto" /\ r_in.discover_auth)
    /\ \A t \in Threads :
          r_pc[t] = "login" =>
              /\ Len(r_hist[t]) >= r_li[t]
              /\ \A j \in 1..r_li[t] : r_hist[t][Len(r_hist[t]) - r_li[t] + j] = j

\* all four logins are in the list and the pass has come to the last of
\* them
C13_Witness ==
    \E t \in Threads :
        /\ r_logins = <<"password", "rsa", "ed25519", "auto">>
        /\ r_pc[t] = "login"
        /\ r_hist[t] = <<1, 2, 3, 4>>

\* C14: a login exception that is not recoverable leaves the protocol at
\* once: the thread has raised, the failing attempt is the last attempt, no
\* sleep followed it, and nothing of the thread changes afterwards.
C14_OtherExceptionPropagates ==
    /\ [](\A t \in Threads :
            r_err[t] = "Exception" =>
                /\ r_pc[t] = "raised"
                /\ r_hist[t] # <<>>
                /\ r_hist[t][Len(r_hist[t])] = r_li[t]
                /\ r_slept[t] = Len(r_hist[t]) - 1)
    /\ [][\A t \in Threads :
            r_err[t] = "Exception" =>
                /\ r_pc'[t] = r_pc[t] /\ r_li'[t] = r_li[t]
                /\ r_slept'[t] = r_slept[t] /\ r_hist'[t] = r_hist[t]
                /\ r_execs'[t] = r_execs[t]]_vars

\* the second login of a pass raised an exception that is not recoverable,
\* after the first had failed and one sleep
C14_Witness ==
    \E t \in Threads :
        /\ r_err[t] = "Exception"
        /\ r_hist[t] = <<1, 2>>
        /\ r_slept[t] = 1
        /\ r_nlogins > 2

----------------------------------------------------------------------------
(* Host.ssh_run_poll_result (src/host.py)                                   *)
(* The command writes c_total[i] bytes to stream i; the bytes of a stream   *)
(* are numbered 1, 2, ... so that loss and reordering show.  The            *)
(* environment delivers them to the channel in chunks and makes the exit    *)
(* status ready, in any order.                                              *)

MaxBytes == 2       \* bytes the command writes per stream
MaxRecv == 1        \* bytes one recv() returns at most (32768 in the code)

Streams == {1, 2}   \* sources = (stdout, stderr)
ExitCodes == {0, 1}

\* everything the command writes to stream i
Output(i) == [k \in 1..c_total[i] |-> k]

CaptureInit ==
    /\ c_pc = "while"
    /\ c_i = 1
    /\ c_state = <<0, 0>>
    /\ c_datas = << <<>>, <<>> >>
    /\ c_returncode = -1
    /\ c_any = FALSE
    /\ c_total \in (0..MaxBytes) \X (0..MaxBytes)
    /\ c_sent = <<0, 0>>
    /\ c_buf = << <<>>, <<>> >>
    /\ c_exit = FALSE
    /\ c_exitcode \in ExitCodes
    /\ c_closed = <<FALSE, FALSE>>
    /\ c_res = None
    /\ c_ret = None

CaptureIdle ==
    /\ c_pc = "idle"
    /\ c_i = 1
    /\ c_state = <<0, 0>>
    /\ c_datas = << <<>>, <<>> >>
    /\ c_returncode = -1
    /\ c_any = FALSE
    /\ c_total = <<0, 0>>
    /\ c_sent = <<0, 0>>
    /\ c_buf = << <<>>, <<>> >>
    /\ c_exit = FALSE
    /\ c_exitcode = 0
    /\ c_closed = <<FALSE, FALSE>>
    /\ c_res = None
    /\ c_ret = None

CRunning == c_pc \in {"while", "for", "drain", "check", "endfor"}

\* the next k bytes of stream i reach the channel
Deliver(i, k) ==
    /\ CRunning
    /\ c_sent[i] + k <= c_total[i]
    /\ c_buf' = [c_buf EXCEPT ![i] = @ \o SubSeq(Output(i), c_sent[i] + 1, c_sent[i] + k)]
    /\ c_sent' = [c_sent EXCEPT ![i] = @ + k]
    /\ UNCHANGED <<c_pc, c_i, c_state, c_datas, c_returncode, c_any, c_total, c_exit,
                   c_exitcode, c_closed, c_res, c_ret>>
    /\ UNCHANGED others_capture

\* the exit status of the command reaches the channel
ExitReady ==
    /\ CRunning
    /\ ~c_exit
    /\ c_exit' = TRUE
    /\ UNCHANGED <<c_pc, c_i, c_state, c_datas, c_returncode, c_any, c_total, c_sent, c_buf,
                   c_exitcode, c_closed, c_res, c_ret>>
    /\ UNCHANGED others_capture

\* while state[0] != 2 and state[1] != 2:
CLoopGoesOn == c_state[1] # 2 /\ c_state[2] # 2

\* Result(b_stdout.decode(...), b_stderr.decode(...), returncode); decode
\* is applied to the whole array of a stream
Result(out, err, returncode) == [out |-> out, err |-> err, returncode |-> returncode]

\* the loop head: any_data = False and the for loop begins, or the return
CWhile ==
    /\ c_pc = "while"
    /\ IF CLoopGoesOn
         THEN /\ c_any' = FALSE
              /\ c_i' = 1
              /\ c_pc' = "for"
              /\ UNCHANGED c_res
         ELSE /\ c_res' = Result(c_datas[1], c_datas[2], c_returncode)
              /\ c_pc' = "returned"
              /\ UNCHANGED <<c_any, c_i>>
    /\ UNCHANGED <<c_state, c_datas, c_returncode, c_total, c_sent, c_buf, c_exit,
                   c_exitcode, c_closed, c_ret>>
    /\ UNCHANGED others_capture

\* where the for loop goes after the body for i
CAfter(i) == IF i = 1 THEN "for" ELSE "endfor"

\* for i in (0, 1): if state[i] == 2: continue
CFor ==
    /\ c_pc = "for"
    /\ c_pc' = IF c_state[c_i] = 2 THEN CAfter(c_i) ELSE "drain"
    /\ c_i' = IF c_state[c_i] = 2 /\ c_i = 1 THEN 2 ELSE c_i
    /\ UNCHANGED <<c_state, c_datas, c_returncode, c_any, c_total, c_sent, c_buf, c_exit,
                   c_exitcode, c_closed, c_res, c_ret>>
    /\ UNCHANGED others_capture

Min(a, b) == IF a <= b THEN a ELSE b

\* while channel.recv_ready(): any_data = True; d = channel.recv(32768);
\* datas[i].extend(d)       (recv_stderr_ready / recv_stderr for i = 1)
CRecv ==
    /\ c_pc = "drain"
    /\ c_buf[c_i] # <<>>
    /\ LET n == Min(Len(c_buf[c_i]), MaxRecv)
       IN  /\ c_datas' = [c_datas EXCEPT ![c_i] = @ \o SubSeq(c_buf[c_i], 1, n)]
           /\ c_buf' = [c_buf EXCEPT ![c_i] = SubSeq(@, n + 1, Len(@))]
    /\ c_any' = TRUE
    /\ UNCHANGED <<c_pc, c_i, c_state, c_returncode, c_total, c_sent, c_exit, c_exitcode,
                   c_closed, c_res, c_ret>>
    /\ UNCHANGED others_capture

\* recv_ready() is false: the inner while ends
CDrained ==
    /\ c_pc = "drain"
    /\ c_buf[c_i] = <<>>
    /\ c_pc' = "check"
    /\ UNCHANGED <<c_i, c_state, c_datas, c_returncode, c_any, c_total, c_sent, c_buf, c_exit,
                   c_exitcode, c_closed, c_res, c_ret>>
    /\ UNCHANGED others_capture

\* if state[i] == 1: any_data = True; source.close();
\*     if i == 0: returncode = source.channel.recv_exit_status()
\*     state[i] = 2
\* elif channel.exit_status_ready(): any_data = True; state[i] = 1
CCheck ==
    /\ c_pc = "check"
    /\ IF c_state[c_i] = 1
         THEN /\ c_any' = TRUE
              /\ c_closed' = [c_closed EXCEPT ![c_i] = TRUE]
              /\ c_returncode' = IF c_i = 1 THEN c_exitcode ELSE c_returncode
              /\ c_state' = [c_state EXCEPT ![c_i] = 2]
         ELSE IF c_exit
         THEN /\ c_any' = TRUE
              /\ c_state' = [c_state EXCEPT ![c_i] = 1]
              /\ UNCHANGED <<c_closed, c_returncode>>
         ELSE UNCHANGED <<c_any, c_closed, c_returncode, c_state>>
    /\ c_pc' = CAfter(c_i)
    /\ c_i' = IF c_i = 1 THEN 2 ELSE c_i
    /\ UNCHANGED <<c_datas, c_total, c_sent, c_buf, c_exit, c_exitcode, c_res, c_ret>>
    /\ UNCHANGED others_capture

\* if not any_data: time.sleep(0.001)
CEndFor ==
    /\ c_pc = "endfor"
    /\ c_pc' = "while"
    /\ UNCHANGED <<c_i, c_state, c_datas, c_returncode, c_any, c_total, c_sent, c_buf, c_exit,
                   c_exitcode, c_closed, c_res, c_ret>>
    /\ UNCHANGED others_capture

\* Result.success(): return self.returncode == 0
Result_success(res) == res.returncode = 0

\* Host._run_local: subprocess.run(..., capture_output=True) waits for the
\* command and returns everything it wrote and its exit status
RunLocal ==
    /\ c_pc = "while"
    /\ c_state = <<0, 0>> /\ c_sent = <<0, 0>> /\ ~c_exit
    /\ c_res' = Result(Output(1), Output(2), c_exitcode)
    /\ c_pc' = "returned_local"
    /\ UNCHANGED <<c_i, c_state, c_datas, c_returncode, c_any, c_total, c_sent, c_buf, c_exit,
                   c_exitcode, c_closed, c_ret>>
    /\ UNCHANGED others_capture

\* the end of Host.run if a non-zero exit status were an error
HostRun_RaisesOnFailure ==
    /\ c_pc \in {"returned", "returned_local"}
    /\ IF c_res.returncode # 0
         THEN c_pc' = "run_raised" /\ UNCHANGED c_ret
         ELSE /\ c_pc' = "run_done"
              /\ c_ret' = [ret_val |-> c_res, status |-> "succeeded"]
    /\ UNCHANGED <<c_i, c_state, c_datas, c_returncode, c_any, c_total, c_sent, c_buf, c_exit,
                   c_exitcode, c_closed, c_res>>
    /\ UNCHANGED others_capture

\* the end of Host.run, after _run_local or _run_remote returned ret_val:
\* status = "failed (rc=...)" if ret_val.returncode != 0 else "succeeded";
\* logger.log(...); return ret_val
HostRun ==
    /\ c_pc \in {"returned", "returned_local"}
    /\ c_pc' = "run_done"
    /\ c_ret' = [ret_val |-> c_res,
                 status |-> IF c_res.returncode # 0 THEN "failed" ELSE "succeeded"]
    /\ UNCHANGED <<c_i, c_state, c_datas, c_returncode, c_any, c_total, c_sent, c_buf, c_exit,
                   c_exitcode, c_closed, c_res>>
    /\ UNCHANGED others_capture

\* Host.run_or_die, after self.run returned ret:
\* if ret.returncode: logger.error(f"... failed: {ret.err}"); sys.exit(-1)
\* else: logger.debug(ret.out.strip()); return ret
\* The exit status of the process is -1 as an unsigned byte.
RunOrDie ==
    /\ c_pc = "run_done"
    /\ IF c_ret.ret_val.returncode # 0
         THEN /\ c_pc' = "exited"
              /\ c_ret' = [ret_val |-> c_ret.ret_val, status |-> c_ret.status,
                           logged |-> c_ret.ret_val.err, exit |-> (-1) % 256]
         ELSE /\ c_pc' = "die_returned"
              /\ UNCHANGED c_ret
    /\ UNCHANGED <<c_i, c_state, c_datas, c_returncode, c_any, c_total, c_sent, c_buf, c_exit,
                   c_exitcode, c_closed, c_res>>
    /\ UNCHANGED others_capture

CaptureNext ==
    \/ RunLocal
    \/ HostRun
    \/ RunOrDie
    \/ \E i \in Streams : \E k \in 1..MaxBytes : Deliver(i, k)
    \/ ExitReady
    \/ CWhile
    \/ CFor
    \/ CRecv
    \/ CDrained
    \/ CCheck
    \/ CEndFor

\* C9: when the capture has returned, the readers of both streams are in
\* their finished state (2) and the exit status has been read into the
\* Result.
C9_ReturnsAfterBothFinished ==
    c_pc = "returned" =>
        /\ c_state = <<2, 2>>
        /\ c_closed = <<TRUE, TRUE>>
        /\ c_res.returncode = c_exitcode

\* C10: the Result returned holds every byte the command wrote to stdout
\* and to stderr, in order.
C10_ResultHoldsAllOutput ==
    c_pc = "returned" =>
        /\ c_res.out = Output(1)
        /\ c_res.err = Output(2)

\* C15: Host.run never ends by raising because of the exit status: it
\* returns the Result it was given, whatever its returncode; the Result of a
\* local command carries the command's exit status; and the Result reports
\* success exactly when its returncode is 0, as does the status logged.
C15_RunReturnsEveryExitCode ==
    /\ c_pc # "run_raised"
    /\ c_pc = "run_done" =>
          /\ c_ret.ret_val = c_res
          /\ Result_success(c_ret.ret_val) <=> c_ret.ret_val.returncode = 0
          /\ Result_success(c_ret.ret_val) <=> c_ret.status = "succeeded"
          /\ c_closed = <<FALSE, FALSE>> /\ c_state = <<0, 0>> =>
                c_ret.ret_val.returncode = c_exitcode

\* Host.run returned the Result of a remote command that exited with 1
C15_Witness ==
    /\ c_pc = "run_done"
    /\ c_state = <<2, 2>>
    /\ c_ret.ret_val.returncode = 1
    /\ ~Result_success(c_ret.ret_val)

\* C31: run_or_die ends the process, with a non-zero exit status and the
\* captured stderr logged, exactly when the command's exit status is not 0;
\* when it is 0, run_or_die returns the Result and the run goes on.
C31_FailFastOnNonZero ==
    /\ c_pc = "exited" =>
          /\ c_exitcode # 0
          /\ c_ret.exit # 0
          /\ c_ret.logged = c_ret.ret_val.err
    /\ c_pc = "die_returned" =>
          /\ c_exitcode = 0
          /\ c_ret.ret_val = c_res

\* C34: the Result of the output capture carries the exit status of the
\* command, never the initial -1.
C34_ExitCodeIsExitStatus ==
    c_pc = "returned" =>
        /\ c_res.returncode = c_exitcode
        /\ c_res.returncode # -1

----------------------------------------------------------------------------
(* Host.__new__, Host.__init__ and the dict host_instances (src/host.py)    *)
(* Host(hostname) runs __new__, which looks the key up in host_instances    *)
(* and creates the object if the key is missing, and then __init__ on the   *)
(* object __new__ returned, on every call.                                  *)

MaxLookups == 3     \* lookups in all
MaxObjects == 4     \* objects created in all

HostKinds == {"Host", "HostWithBF2"}        \* cls
Hostnames == {"localhost", "hostA"}

\* a key made of the hostname alone
HostKey_NoKind(cls, hostname) == <<"Host", hostname>>

\* key = (cls, hostname)
HostKey(cls, hostname) == <<cls, hostname>>

\* the attributes __init__ sets; _host is set by ssh_connect_looped only
NewAttrs == [logins |-> <<>>, session |-> FALSE]

CacheInit ==
    /\ h_pc = [t \in Threads |-> "idle"]
    /\ h_req = [t \in Threads |-> None]
    /\ h_key = [t \in Threads |-> None]
    /\ h_obj = [t \in Threads |-> None]
    /\ h_inst = <<>>
    /\ h_made = {}
    /\ h_got = {}
    /\ h_st = [o \in 1..(MaxObjects + 1) |-> NewAttrs]
    /\ h_conn = {}
    /\ h_n = 0
    /\ h_overlap \in BOOLEAN

\* all lookups are made one after the other
CacheInitSeq == CacheInit /\ ~h_overlap

CacheIdle ==
    /\ h_pc = [t \in Threads |-> "idle"]
    /\ h_req = [t \in Threads |-> None]
    /\ h_key = [t \in Threads |-> None]
    /\ h_obj = [t \in Threads |-> None]
    /\ h_inst = <<>>
    /\ h_made = {}
    /\ h_got = {}
    /\ h_st = [o \in 1..(MaxObjects + 1) |-> NewAttrs]
    /\ h_conn = {}
    /\ h_n = MaxLookups + 1
    /\ h_overlap = FALSE

\* Host(hostname) or a subclass: key = (cls, hostname);
\* if key not in host_instances:
HostNewCheck(t, cls, hostname) ==
    /\ h_pc[t] = "idle"
    /\ h_n < MaxLookups
    /\ h_overlap \/ \A u \in Threads : h_pc[u] = "idle"
    /\ h_n' = h_n + 1
    /\ h_req' = [h_req EXCEPT ![t] = <<cls, hostname>>]
    /\ h_key' = [h_key EXCEPT ![t] = HostKey(cls, hostname)]
    /\ h_pc' = [h_pc EXCEPT ![t] =
                  IF HostKey(cls, hostname) \notin DOMAIN h_inst THEN "create" ELSE "return"]
    /\ UNCHANGED <<h_obj, h_inst, h_made, h_got, h_st, h_conn, h_overlap>>
    /\ UNCHANGED others_cache

\* host_instances[key] = super().__new__(cls)
HostNewCreate(t) ==
    /\ h_pc[t] = "create"
    /\ Cardinality(h_made) < MaxObjects
    /\ LET o == Cardinality(h_made) + 1
       IN  /\ h_inst' = [k \in DOMAIN h_inst \cup {h_key[t]} |->
                            IF k = h_key[t] THEN o ELSE h_inst[k]]
           /\ h_made' = h_made \cup {<<h_key[t], o>>}
    /\ h_pc' = [h_pc EXCEPT ![t] = "return"]
    /\ UNCHANGED <<h_req, h_key, h_obj, h_got, h_st, h_conn, h_n, h_overlap>>
    /\ UNCHANGED others_cache

\* return host_instances[key]
HostNewReturn(t) ==
    /\ h_pc[t] = "return"
    /\ h_obj' = [h_obj EXCEPT ![t] = h_inst[h_key[t]]]
    /\ h_pc' = [h_pc EXCEPT ![t] = "init"]
    /\ UNCHANGED <<h_req, h_key, h_inst, h_made, h_got, h_st, h_conn, h_n, h_overlap>>
    /\ UNCHANGED others_cache

\* __init__(self, hostname), run on the object __new__ returned:
\* self._hostname = hostname; self._logins = []; self.sudo_needed = False
\* and the caller has its Host
HostInit(t) ==
    /\ h_pc[t] = "init"
    /\ h_st' = [h_st EXCEPT ![h_obj[t]] = [@ EXCEPT !.logins = <<>>]]
    /\ h_got' = h_got \cup {<<h_req[t], h_obj[t]>>}
    /\ h_pc' = [h_pc EXCEPT ![t] = "idle"]
    /\ UNCHANGED <<h_req, h_key, h_obj, h_inst, h_made, h_conn, h_n, h_overlap>>
    /\ UNCHANGED others_cache

\* ssh_connect on a Host a caller holds: self._logins is built and
\* ssh_connect_looped sets self._host
HostSshConnect(o) ==
    /\ o \in {p[2] : p \in h_got}
    /\ o \notin h_conn
    /\ h_st' = [h_st EXCEPT ![o] = [logins |-> <<"password">>, session |-> TRUE]]
    /\ h_conn' = h_conn \cup {o}
    /\ UNCHANGED <<h_pc, h_req, h_key, h_obj, h_inst, h_made, h_got, h_n, h_overlap>>
    /\ UNCHANGED others_cache

CacheNext ==
    \/ \E t \in Threads, cls \in HostKinds, hostname \in Hostnames :
          HostNewCheck(t, cls, hostname)
    \/ \E t \in Threads : HostNewCreate(t)
    \/ \E t \in Threads : HostNewReturn(t)
    \/ \E t \in Threads : HostInit(t)
    \/ \E o \in 1..MaxObjects : HostSshConnect(o)

\* C16: of any two lookups that have returned, those of the same class and
\* hostname returned the same object and those that differ in class or
\* hostname returned different objects.
C16_SameKeySameObject ==
    \A p, q \in h_got : (p[1] = q[1]) <=> (p[2] = q[2])

\* three lookups, one after the other, have returned two objects: one key
\* was looked up twice
C16_Witness ==
    /\ h_n = 3
    /\ \A t \in Threads : h_pc[t] = "idle"
    /\ Cardinality(h_got) = 2
    /\ Cardinality(h_made) = 2

\* C17: for every key at most one object is ever created, and all lookups
\* of a class and hostname receive the same object.
C17_OneObjectPerKey ==
    /\ \A p, q \in h_made : p[1] = q[1] => p[2] = q[2]
    /\ \A p, q \in h_got : p[1] = q[1] => p[2] = q[2]

\* C18: an object on which ssh_connect has completed keeps its session and
\* its logins, whatever lookups follow.
C18_LookupKeepsLogins ==
    \A o \in h_conn : h_st[o].session /\ h_st[o].logins # <<>>

----------------------------------------------------------------------------
(* ClusterDeployer._rename_workers and _try_rename_workers                  *)
(* (src/clusterDeployer.py): the loop that gives the hosts of the backend's *)
(* inventory the names of the workers whose IP they list.  The backend's    *)
(* inventory changes while the loop runs.                                   *)

MaxRWorkers == 2    \* expected workers
MaxRPasses == 2     \* passes of the loop
MaxInvChanges == 2  \* changes of the inventory

InvIds == {"h1", "h2"}      \* h["id"] of the hosts the backend may list

\* what list_hosts() has for an id: nothing, a host of another infra env, a
\* host without "inventory", or a host whose interfaces list the IPs `ips`:
\* the IP of one worker, or of none
InvEntries ==
    [kind : {"absent", "other", "noinv"}, ips : {{}}]
        \cup [kind : {"host"}, ips : {{}} \cup {{w} : w \in 1..MaxRWorkers}]

RenameInit ==
    /\ w_pc = "precheck"
    /\ w_n \in 1..MaxRWorkers
    /\ w_inrange \in SUBSET (1..w_n)
    /\ w_log = {}
    /\ w_inv = [id \in InvIds |-> [kind |-> "absent", ips |-> {}]]
    /\ w_name = <<>>
    /\ w_i = 1
    /\ w_renamed = 0
    /\ w_upd = [w \in 1..MaxRWorkers |-> 0]
    /\ w_passes = 0
    /\ w_slept = 0
    /\ w_changes = 0

RenameIdle ==
    /\ w_pc = "idle"
    /\ w_n = 1
    /\ w_inrange = {}
    /\ w_log = {}
    /\ w_inv = [id \in InvIds |-> [kind |-> "absent", ips |-> {}]]
    /\ w_name = <<>>
    /\ w_i = 1
    /\ w_renamed = 0
    /\ w_upd = [w \in 1..MaxRWorkers |-> 0]
    /\ w_passes = 0
    /\ w_slept = 0
    /\ w_changes = 0

\* a host registers with the backend, reports its inventory, or goes away
InvChange(id, e) ==
    /\ w_pc \in {"precheck", "loop", "try", "check"}
    /\ w_changes < MaxInvChanges
    /\ e # w_inv[id]
    /\ e.kind = "host" => e.ips \subseteq 1..w_n
    /\ w_inv' = [w_inv EXCEPT ![id] = e]
    /\ w_changes' = w_changes + 1
    /\ UNCHANGED <<w_pc, w_n, w_name, w_i, w_renamed, w_upd, w_passes, w_slept>>
    /\ UNCHANGED <<w_inrange, w_log>>
    /\ UNCHANGED others_rename

\* any_worker_bad: every worker without an address in range is logged, and
\* if there is one, sys.exit(-1); else the loop begins
RangeCheck_LogsOnly ==
    /\ w_pc = "precheck"
    /\ w_log' = (1..w_n) \ w_inrange
    /\ w_pc' = "loop"
    /\ UNCHANGED <<w_n, w_inv, w_name, w_i, w_renamed, w_upd, w_passes, w_slept,
                   w_changes, w_inrange>>
    /\ UNCHANGED others_rename

RangeCheck ==
    /\ w_pc = "precheck"
    /\ w_log' = (1..w_n) \ w_inrange
    /\ w_pc' = IF w_log' # {} THEN "exit" ELSE "loop"
    /\ UNCHANGED <<w_n, w_inv, w_name, w_i, w_renamed, w_upd, w_passes, w_slept,
                   w_changes, w_inrange>>
    /\ UNCHANGED others_rename

\* for try_count in itertools.count(0): renamed = self._try_rename_workers(infra_env),
\* which begins with renamed = 0
TryBegin ==
    /\ w_pc = "loop"
    /\ w_passes < MaxRPasses
    /\ w_renamed' = 0
    /\ w_i' = 1
    /\ w_upd' = [w \in 1..MaxRWorkers |-> 0]
    /\ w_pc' = "try"
    /\ UNCHANGED <<w_n, w_inv, w_name, w_passes, w_slept, w_changes, w_inrange, w_log>>
    /\ UNCHANGED others_rename

\* the hosts of list_hosts() that are of this infra env, have an inventory
\* and list the IP of worker w among their ipv4_addresses
Matching(w) == {id \in InvIds : w_inv[id].kind = "host" /\ w \in w_inv[id].ips}

\* one round of `for k8s_node in bm.k8s_worker_nodes`: for every matching
\* host of list_hosts(): update_host(h["id"], {"name": ...}); renamed += 1
TryWorker ==
    /\ w_pc = "try"
    /\ w_name' = [id \in DOMAIN w_name \cup Matching(w_i) |->
                    IF id \in Matching(w_i) THEN w_i ELSE w_name[id]]
    /\ w_renamed' = w_renamed + Cardinality(Matching(w_i))
    /\ w_upd' = [w_upd EXCEPT ![w_i] = Cardinality(Matching(w_i))]
    /\ IF w_i < w_n
         THEN w_i' = w_i + 1 /\ UNCHANGED <<w_pc, w_passes>>
         ELSE w_pc' = "check" /\ w_passes' = w_passes + 1 /\ UNCHANGED w_i
    /\ UNCHANGED <<w_n, w_inv, w_slept, w_changes, w_inrange, w_log>>
    /\ UNCHANGED others_rename

\* expected = len(workers); if renamed == expected: break
\* if renamed: time.sleep(5)
RenameCheck ==
    /\ w_pc = "check"
    /\ IF w_renamed = w_n
         THEN w_pc' = "done" /\ UNCHANGED w_slept
         ELSE /\ w_pc' = "loop"
              /\ w_slept' = IF w_renamed # 0 THEN w_slept + 1 ELSE w_slept
    /\ UNCHANGED <<w_n, w_inv, w_name, w_i, w_renamed, w_upd, w_passes, w_changes>>
    /\ UNCHANGED <<w_inrange, w_log>>
    /\ UNCHANGED others_rename

RenameNext ==
    \/ \E id \in InvIds, e \in InvEntries : InvChange(id, e)
    \/ RangeCheck
    \/ TryBegin
    \/ TryWorker
    \/ RenameCheck

\* C19: when the loop has ended, every expected worker has a host of the
\* inventory that carries its name (a host is given a worker's name only
\* when it lists the worker's IP).
C19_EndsOnlyWhenAllMatched ==
    w_pc = "done" =>
        \A w \in 1..w_n : \E id \in DOMAIN w_name : w_name[id] = w

\* C20: when the first pass found the IP of every expected worker in the
\* inventory, the loop has ended after that pass and every worker was named
\* in exactly one update.
C20_FirstPassRenamesEachOnce ==
    (/\ w_passes = 1
     /\ w_pc \in {"loop", "done"}
     /\ \A w \in 1..w_n : w_upd[w] >= 1) =>
        (w_pc = "done" /\ \A w \in 1..w_n : w_upd[w] = 1)

\* C35: a full pass in which the inventory listed the IP of every expected
\* worker, in one entry or in several, ends the loop: the loop never goes
\* back for another pass after such a pass.
C35_EndsOnceAllListed ==
    (w_pc = "loop" /\ w_passes >= 1) => \E w \in 1..w_n : w_upd[w] = 0

\* C21: between two passes the loop has slept: before a pass begins and
\* while it runs, there have been as many sleeps as passes that returned.
C21_SleepsBetweenPasses ==
    w_pc \in {"loop", "try"} => w_slept = w_passes

\* C22: when some worker has no IPv4 address in the reserved range, every
\* such worker is logged and the run exits: the inventory is never queried
\* (no pass begins) and no host is renamed.
C22_OutOfRangeAbortsFirst ==
    (1..w_n) \ w_inrange # {} =>
        /\ w_pc \in {"precheck", "exit"}
        /\ w_pc = "exit" => w_log = (1..w_n) \ w_inrange
        /\ w_passes = 0 /\ w_renamed = 0 /\ w_name = <<>>

\* both workers are out of range and reported, and the run has exited while
\* the inventory lists a worker's IP
C22_Witness ==
    /\ w_pc = "exit"
    /\ w_log = {1, 2}
    /\ Matching(1) # {}

----------------------------------------------------------------------------
(* DhcpConfig (src/dhcpConfig.py): the reservation lists, add_host, the     *)
(* config file as written by to_string and as read by                       *)
(* dhcp_config_from_file, and render_dhcpd_conf.  An IPv4 address is a pair *)
(* <<net, host>>: its /24 network and the last byte.                        *)

MaxDhcpCalls == 3   \* calls of add_host or render_dhcpd_conf

DhcpNames == {"n1", "n2"}
DhcpMacs == {"m1", "m2"}
DhcpIps == {<<1, 1>>, <<1, 2>>, <<2, 1>>}

\* DhcpdHostConfig
DhcpdHostConfig(hostname, hardware_ethernet, fixed_address) ==
    [hostname |-> hostname, hardware_ethernet |-> hardware_ethernet,
     fixed_address |-> fixed_address]

\* subnet_config_from_host_config: the /24 network of the fixed address;
\* range, routers and broadcast address are functions of it
subnet_config_from_host_config(hc) == [subnet |-> hc.fixed_address[1]]

\* the elements of s at the indices in idxs, in order
AtIndices(s, idxs) ==
    [k \in 1..Cardinality(idxs) |->
        s[CHOOSE i \in idxs : Cardinality({j \in idxs : j <= i}) = k]]

\* add_host that appends the reservation without looking at the list
add_host_Append(subnets, hosts, hostname, hardware_ethernet, fixed_address) ==
    [subnets |-> subnets,
     hosts |-> Append(hosts, DhcpdHostConfig(hostname, hardware_ethernet, fixed_address))]

\* DhcpConfig.add_host on the lists `subnets` and `hosts`; both are changed
\* in place
add_host(subnets, hosts, hostname, hardware_ethernet, fixed_address) ==
    LET new == DhcpdHostConfig(hostname, hardware_ethernet, fixed_address)
        \* entries of another hostname with the same IP or MAC are deleted
        overlap(hc) == /\ hc.hostname # new.hostname
                       /\ \/ new.fixed_address = hc.fixed_address
                          \/ new.hardware_ethernet = hc.hardware_ethernet
        h1 == SelectSeq(hosts, LAMBDA hc : ~overlap(hc))
        matching == {i \in DOMAIN h1 : h1[i].hostname = new.hostname}
        first == CHOOSE i \in matching : \A j \in matching : i <= j
    IN [subnets |->
            IF \E k \in DOMAIN subnets : new.fixed_address[1] = subnets[k].subnet
            THEN subnets
            ELSE Append(subnets, subnet_config_from_host_config(new)),
        hosts |->
            IF matching # {}
            THEN \* matching[1:] are deleted, matching[0] becomes the new entry
                 AtIndices([i \in DOMAIN h1 |-> IF i = first THEN new ELSE h1[i]],
                           (DOMAIN h1 \ matching) \cup {first})
            ELSE Append(h1, new)]

\* DhcpdSubnetConfig.to_string and DhcpdHostConfig.to_string: the lines of
\* one block; DhcpConfig.to_string: the subnet blocks, then the host blocks
DhcpConfig_to_string(subnets, hosts) ==
    LET subnet_lines(sc) == <<[t |-> "tag", v |-> "CDA"],
                              [t |-> "subnet", v |-> sc.subnet],
                              [t |-> "range", v |-> sc.subnet],
                              [t |-> "option", v |-> "domain-name-servers"],
                              [t |-> "}", v |-> ""]>>
        host_lines(hc) == <<[t |-> "tag", v |-> "CDA"],
                            [t |-> "host", v |-> hc.hostname],
                            [t |-> "hardware ethernet", v |-> hc.hardware_ethernet],
                            [t |-> "fixed-address", v |-> hc.fixed_address],
                            [t |-> "option", v |-> "host-name"],
                            [t |-> "}", v |-> ""]>>
    IN Flatten([i \in DOMAIN subnets |-> subnet_lines(subnets[i])])
       \o Flatten([i \in DOMAIN hosts |-> host_lines(hosts[i])])

RECURSIVE ParseLines(_, _, _, _, _)
\* the loop `for line in lines` of dhcp_config_from_file: cur_subnet and
\* cur_host are <<>> for None; the blocks found are appended to the lists
ParseLines(lines, cur_subnet, cur_host, subnets, hosts) ==
    IF lines = <<>> THEN [subnets |-> subnets, hosts |-> hosts]
    ELSE LET l == Head(lines)
             rest == Tail(lines)
         IN IF l.t = "subnet"
            THEN ParseLines(rest, <<[subnet |-> l.v]>>, cur_host, subnets, hosts)
            ELSE IF cur_subnet # <<>> /\ l.t \in {"range", "option"}
            THEN ParseLines(rest, cur_subnet, cur_host, subnets, hosts)
            ELSE IF cur_subnet # <<>> /\ l.t = "}"
            THEN ParseLines(rest, <<>>, cur_host, Append(subnets, cur_subnet[1]), hosts)
            ELSE IF l.t = "host"
            THEN ParseLines(rest, cur_subnet,
                            <<[hostname |-> l.v, hardware_ethernet |-> None,
                               fixed_address |-> None]>>, subnets, hosts)
            ELSE IF cur_host # <<>> /\ l.t = "hardware ethernet"
            THEN ParseLines(rest, cur_subnet,
                            <<[cur_host[1] EXCEPT !.hardware_ethernet = l.v]>>, subnets, hosts)
            ELSE IF cur_host # <<>> /\ l.t = "fixed-address"
            THEN ParseLines(rest, cur_subnet,
                            <<[cur_host[1] EXCEPT !.fixed_address = l.v]>>, subnets, hosts)
            ELSE IF cur_host # <<>> /\ l.t = "}"
            THEN ParseLines(rest, cur_subnet, <<>>, subnets, Append(hosts, cur_host[1]))
            ELSE ParseLines(rest, cur_subnet, cur_host, subnets, hosts)

\* dhcp_config_from_file: config = DhcpConfig() has no lists of its own, so
\* config._subnet_configs.append and config._host_configs.append extend the
\* lists of the class, given here as `subnets` and `hosts`
dhcp_config_from_file(lines, subnets, hosts) ==
    ParseLines(lines, <<>>, <<>>, subnets, hosts)

\* a config file that CDA did not write
ForeignFile == <<[t |-> "other", v |-> ""]>>

DhcpInit ==
    /\ d_subnets = <<>>
    /\ d_hosts = <<>>
    /\ d_file \in {<<>>, ForeignFile,
                   DhcpConfig_to_string(<<[subnet |-> 1]>>,
                                        <<DhcpdHostConfig("n1", "m1", <<1, 1>>)>>)}
    /\ d_calls = 0
    /\ d_last = <<>>

DhcpIdle ==
    /\ d_subnets = <<>>
    /\ d_hosts = <<>>
    /\ d_file = <<>>
    /\ d_calls = MaxDhcpCalls + 1
    /\ d_last = <<>>

\* dhcp_config.add_host(hostname, hardware_ethernet, fixed_address) on a
\* DhcpConfig whose lists were empty at first
AddHostCall(hostname, hardware_ethernet, fixed_address) ==
    /\ d_calls < MaxDhcpCalls
    /\ LET r == add_host(d_subnets, d_hosts, hostname, hardware_ethernet, fixed_address)
       IN d_subnets' = r.subnets /\ d_hosts' = r.hosts
    /\ d_calls' = d_calls + 1
    /\ d_last' = <<hostname, hardware_ethernet, fixed_address>>
    /\ UNCHANGED d_file
    /\ UNCHANGED others_dhcp

\* render_dhcpd_conf(mac, ip, name): a file whose first line lacks the tag
\* is moved away; file.touch(); dhcp_config_from_file; add_host;
\* write_to_file
render_dhcpd_conf(mac, ip, name) ==
    /\ d_calls < MaxDhcpCalls
    /\ LET kept == IF d_file # <<>> /\ Head(d_file).t = "tag" THEN d_file ELSE <<>>
           config == dhcp_config_from_file(kept, d_subnets, d_hosts)
           r == add_host(config.subnets, config.hosts, name, mac, ip)
       IN /\ d_subnets' = r.subnets
          /\ d_hosts' = r.hosts
          /\ d_file' = DhcpConfig_to_string(r.subnets, r.hosts)
    /\ d_calls' = d_calls + 1
    /\ d_last' = <<name, mac, ip>>
    /\ UNCHANGED others_dhcp

AddHostNext ==
    \E n \in DhcpNames, m \in DhcpMacs, ip \in DhcpIps : AddHostCall(n, m, ip)

RenderNext ==
    \E n \in DhcpNames, m \in DhcpMacs, ip \in DhcpIps : render_dhcpd_conf(m, ip, n)

\* no two elements of s agree on F
Distinct(s, F(_)) == \A i, j \in DOMAIN s : F(s[i]) = F(s[j]) => i = j

\* C33: after any sequence of add_host calls from an empty list no two
\* reservations share a hostname, a MAC or a fixed IP and the reservation
\* added last is in the list as given; and a call with the arguments of the
\* call before it leaves the list as it is.
C33_AddHostIsIdempotentUpsert ==
    /\ [](/\ Distinct(d_hosts, LAMBDA hc : hc.hostname)
          /\ Distinct(d_hosts, LAMBDA hc : hc.hardware_ethernet)
          /\ Distinct(d_hosts, LAMBDA hc : hc.fixed_address)
          /\ d_last # <<>> =>
                \E i \in DOMAIN d_hosts :
                    d_hosts[i] = DhcpdHostConfig(d_last[1], d_last[2], d_last[3]))
    /\ [][(d_calls' # d_calls /\ d_last' = d_last) =>
              (d_hosts' = d_hosts /\ d_subnets' = d_subnets)]_vars

\* a third call that replaced the reservation of n1, in a list of two
C33_Witness ==
    /\ d_calls = 3
    /\ Len(d_hosts) = 2
    /\ d_hosts[1] = DhcpdHostConfig("n1", "m2", <<2, 1>>)
    /\ d_last = <<"n1", "m2", <<2, 1>>>>

\* C37: the config file written by render_dhcpd_conf never holds two host
\* entries with the same hostname nor two blocks of one subnet, and the
\* lists held after a call are the entries of the file, no more.
C37_RenderKeepsEntriesUnique ==
    LET f == ParseLines(d_file, <<>>, <<>>, <<>>, <<>>)
    IN d_calls > 0 =>
          /\ Distinct(f.hosts, LAMBDA hc : hc.hostname)
          /\ Distinct(f.subnets, LAMBDA sc : sc.subnet)

----------------------------------------------------------------------------
(* Booting an ISO over Redfish with retries (BMC.boot_iso_redfish)          *)

MaxRetries == 4     \* `retries` is one of 0..MaxRetries

\* the exceptions boot_iso_with_retry ends with
BootErrors == {"ConnectionError", "HTTPError"}

BootInit ==
    /\ b_pc = "assert"
    /\ b_colon \in BOOLEAN
    /\ b_retries \in 0..MaxRetries
    /\ b_attempt = 0
    /\ b_err = <<>>
    /\ b_log = <<>>

\* the boot subsystem at rest
BootIdle ==
    /\ b_pc = "returned"
    /\ b_colon = TRUE
    /\ b_retries = 1
    /\ b_attempt = 1
    /\ b_err = <<>>
    /\ b_log = <<"ok">>

\* assert ":" in iso_path
BootAssert ==
    /\ b_pc = "assert"
    /\ b_pc' = IF b_colon THEN "for" ELSE "assert_failed"
    /\ UNCHANGED <<b_colon, b_retries, b_attempt, b_err, b_log>>
    /\ UNCHANGED others_boot

\* for attempt in range(retries): the next value of `attempt`, or the end of
\* the function when the range is exhausted
BootFor ==
    /\ b_pc = "for"
    /\ IF b_attempt < b_retries
         THEN b_pc' = "try" /\ b_attempt' = b_attempt + 1
         ELSE b_pc' = "returned" /\ UNCHANGED b_attempt
    /\ UNCHANGED <<b_colon, b_retries, b_err, b_log>>
    /\ UNCHANGED others_boot

\* try: self.boot_iso_with_retry(iso_path); return / except Exception as e
BootAttempt(outcome) ==
    /\ b_pc = "try"
    /\ b_log' = Append(b_log, outcome)
    /\ IF outcome = "ok"
         THEN b_pc' = "returned" /\ UNCHANGED b_err
         ELSE b_pc' = "except" /\ b_err' = outcome
    /\ UNCHANGED <<b_colon, b_retries, b_attempt>>
    /\ UNCHANGED others_boot

\* if attempt == retries - 1: raise e / else: time.sleep(retry_delay)
BootExcept ==
    /\ b_pc = "except"
    /\ IF b_attempt - 1 = b_retries - 1
         THEN b_pc' = "raised" /\ UNCHANGED b_log
         ELSE b_pc' = "for" /\ b_log' = Append(b_log, "sleep")
    /\ UNCHANGED <<b_colon, b_retries, b_attempt, b_err>>
    /\ UNCHANGED others_boot

BootNext ==
    \/ BootAssert
    \/ BootFor
    \/ \E outcome \in {"ok"} \cup BootErrors : BootAttempt(outcome)
    \/ BootExcept

\* the outcomes of the boot attempts made so far
BootAttempts == SelectSeq(b_log, LAMBDA x : x # "sleep")

\* the part of C38 that holds for every value of `retries`: at most `retries` attempts are made, no attempt follows
\* a successful one, retry_delay is waited only after a failed attempt and
\* before the next one, and when the call raises, every one of the
\* `retries` attempts has failed and the error is the last attempt's.
BoundedRetries ==
    /\ Len(BootAttempts) <= b_retries
    /\ \A i \in 1..(Len(b_log) - 1) : b_log[i] # "ok"
    /\ \A i \in DOMAIN b_log :
          b_log[i] = "sleep" =>
              /\ i > 1 /\ b_log[i - 1] \in BootErrors
              /\ IF i < Len(b_log) THEN b_log[i + 1] # "sleep"
                 ELSE (b_pc = "for" /\ b_attempt < b_retries) \/ b_pc = "try"
    /\ b_pc = "raised" =>
          /\ Len(BootAttempts) = b_retries
          /\ \A i \in DOMAIN BootAttempts : BootAttempts[i] \in BootErrors
          /\ b_err = b_log[Len(b_log)]

\* C38: boot_iso_redfish returns normally only if some attempt succeeded,
\* for every value of `retries`.
C38_ReturnsOnlyAfterSuccess ==
    b_pc = "returned" => (b_log # <<>> /\ b_log[Len(b_log)] = "ok")

----------------------------------------------------------------------------
(* Writing and copying a file to a host (Host.write, Host.copy_to). A file  *)
(* is <<>> when it does not exist and <<content>> when it does; a content   *)
(* is the sequence of the chunks written.                                   *)

Absent == <<>>
File(content) == <<content>>

\* the content of the source file and a content the destination had before
NewData == <<"n1", "n2">>
OldData == <<"o1">>

CopyInit ==
    /\ p_pc \in {"write", "copy_to"}
    /\ p_sudo \in BOOLEAN
    /\ p_local \in BOOLEAN
    /\ p_fault \in {"none", "dropped", "persistent"}
    /\ p_src \in IF p_pc = "write" THEN {"none"} ELSE {"missing", "file"}
    /\ p_dst \in {Absent, File(OldData)}
    /\ p_tmp = Absent
    /\ p_rc = 0

\* the copy subsystem at rest
CopyIdle ==
    /\ p_pc = "done"
    /\ p_sudo = FALSE
    /\ p_local = TRUE
    /\ p_fault = "none"
    /\ p_src = "file"
    /\ p_dst = File(NewData)
    /\ p_tmp = Absent
    /\ p_rc = 0

\* Host.write: open(fn, "wb") and f.write without sudo on the local host,
\* else a NamedTemporaryFile(delete=False) with the contents and copy_to
HostWrite ==
    /\ p_pc = "write"
    /\ IF ~p_sudo /\ p_local
         THEN p_dst' = File(NewData) /\ p_pc' = "done" /\ UNCHANGED p_src
         ELSE p_src' = "tempfile" /\ p_pc' = "copy_to" /\ UNCHANGED p_dst
    /\ UNCHANGED <<p_sudo, p_local, p_fault, p_tmp, p_rc>>
    /\ UNCHANGED others_copy

\* copy_to up to the transfer: FileNotFoundError for a missing source; with
\* sudo dst_file becomes the temporary path; shutil.copy on the local host
CopyBegin ==
    /\ p_pc = "copy_to"
    /\ IF p_src = "missing"
         THEN p_pc' = "raised" /\ UNCHANGED <<p_dst, p_tmp>>
         ELSE IF p_local
              THEN /\ IF p_sudo THEN p_tmp' = File(NewData) /\ UNCHANGED p_dst
                                ELSE p_dst' = File(NewData) /\ UNCHANGED p_tmp
                   /\ p_pc' = IF p_sudo THEN "shell" ELSE "return"
              ELSE p_pc' = "put" /\ UNCHANGED <<p_dst, p_tmp>>
    /\ UNCHANGED <<p_sudo, p_local, p_fault, p_src, p_rc>>
    /\ UNCHANGED others_copy

\* sftp = self._host.open_sftp(); sftp.put(src_file, dst_file); break, or the
\* exception of either; a lost connection may leave a part of the file
SftpPut(partial) ==
    /\ p_pc = "put"
    /\ LET target == IF p_fault = "none" THEN File(NewData)
                     ELSE IF p_fault = "dropped" /\ partial THEN File(<<NewData[1]>>)
                     ELSE IF p_sudo THEN p_tmp ELSE p_dst
       IN IF p_sudo THEN p_tmp' = target /\ UNCHANGED p_dst
                    ELSE p_dst' = target /\ UNCHANGED p_tmp
    /\ p_pc' = IF p_fault # "none" THEN "reconnect"
               ELSE IF p_sudo THEN "shell" ELSE "return"
    /\ UNCHANGED <<p_sudo, p_local, p_fault, p_src, p_rc>>
    /\ UNCHANGED others_copy

\* except Exception: self.ssh_connect_looped(self._logins), a reconnect that
\* succeeds, and the next round of `while True`
SftpReconnect ==
    /\ p_pc = "reconnect"
    /\ p_fault' = IF p_fault = "dropped" THEN "none" ELSE p_fault
    /\ p_pc' = "put"
    /\ UNCHANGED <<p_sudo, p_local, p_src, p_dst, p_tmp, p_rc>>
    /\ UNCHANGED others_copy

\* self.run("rc=0 ; cat TMP > DST || rc=$? ; ..."): the shell opens DST for
\* the redirection, which truncates it, or fails to open it
RelocOpen(ok) ==
    /\ p_pc = "shell"
    /\ IF ok THEN p_dst' = File(<<>>) /\ p_pc' = "cat" /\ p_rc' = 0
             ELSE p_rc' = 1 /\ p_pc' = "rm" /\ UNCHANGED p_dst
    /\ UNCHANGED <<p_sudo, p_local, p_fault, p_src, p_tmp>>
    /\ UNCHANGED others_copy

\* cat writes TMP to DST chunk by chunk; a write may fail: `|| rc=$?`
RelocCat(ok) ==
    /\ p_pc = "cat"
    /\ LET have == Len(p_dst[1])
       IN IF have = Len(p_tmp[1]) THEN p_pc' = "rm" /\ UNCHANGED <<p_dst, p_rc>>
          ELSE IF ok THEN /\ p_dst' = File(Append(p_dst[1], p_tmp[1][have + 1]))
                          /\ UNCHANGED <<p_pc, p_rc>>
          ELSE p_rc' = 1 /\ p_pc' = "rm" /\ UNCHANGED p_dst
    /\ UNCHANGED <<p_sudo, p_local, p_fault, p_src, p_tmp>>
    /\ UNCHANGED others_copy

\* `rm -rf TMP ; exit $rc`; copy_to does not look at the result of run
RelocRm ==
    /\ p_pc = "rm"
    /\ p_tmp' = Absent
    /\ p_pc' = "return"
    /\ UNCHANGED <<p_sudo, p_local, p_fault, p_src, p_dst, p_rc>>
    /\ UNCHANGED others_copy

\* copy_to returns; Host.write goes on with os.remove(tmp_filename)
CopyReturn ==
    /\ p_pc = "return"
    /\ p_src' = IF p_src = "tempfile" THEN "removed" ELSE p_src
    /\ p_pc' = "done"
    /\ UNCHANGED <<p_sudo, p_local, p_fault, p_dst, p_tmp, p_rc>>
    /\ UNCHANGED others_copy

CopyNext ==
    \/ HostWrite
    \/ CopyBegin
    \/ \E partial \in BOOLEAN : SftpPut(partial)
    \/ SftpReconnect
    \/ \E ok \in BOOLEAN : RelocOpen(ok)
    \/ \E ok \in BOOLEAN : RelocCat(ok)
    \/ RelocRm
    \/ CopyReturn

\* C32: with sudo the destination is never written by the transfer, it
\* holds at every moment either what it held before or the complete new
\* content, and the temporary file is gone when the call has ended.
C32_PrivilegedWriteIsAtomic ==
    p_sudo =>
        /\ p_dst \in {Absent, File(OldData), File(NewData)}
        /\ p_pc \in {"put", "reconnect", "shell"} => p_dst # File(NewData)
        /\ p_pc = "done" => p_tmp = Absent

\* C39: a copy to a remote host whose transfer fails for a cause that a
\* reconnect does not remove ends, with an error.
C39_CopyToTerminates ==
    (p_pc = "put" /\ p_fault = "persistent") ~> (p_pc \in {"raised", "done"})

----------------------------------------------------------------------------
(* Specifications *)

\* a deploy or teardown run of cda.main_deploy
Init == DeployInit /\ KnownIdle /\ RunIdle /\ CaptureIdle /\ CacheIdle /\ RenameIdle /\ DhcpIdle /\ BootIdle /\ CopyIdle
Spec == Init /\ [][DeployNext]_vars

\* one call of _wait_known_state
InitKnown == KnownInit /\ DeployIdle /\ RunIdle /\ CaptureIdle /\ CacheIdle /\ RenameIdle /\ DhcpIdle /\ BootIdle /\ CopyIdle
SpecKnown == InitKnown /\ [][KnownNext]_vars

\* one call of _wait_known_state with a backend that becomes ready; the
\* polling thread keeps running and every status lookup returns
SpecKnownReady == InitKnown /\ [][KnownReadyNext]_vars /\ WF_vars(KnownReadyNext)

\* commands run concurrently on one remote Host
InitRun == RunInit /\ DeployIdle /\ KnownIdle /\ CaptureIdle /\ CacheIdle /\ RenameIdle /\ DhcpIdle /\ BootIdle /\ CopyIdle
SpecRun == InitRun /\ [][RunNext]_vars

\* the same, where a thread inside ssh_connect_looped keeps running and every
\* login attempt returns
SpecRunFair == SpecRun /\ \A t \in Threads : WF_vars(ConnectStep(t))

\* one call of ssh_run_poll_result
InitCapture == CaptureInit /\ DeployIdle /\ KnownIdle /\ RunIdle /\ CacheIdle /\ RenameIdle /\ DhcpIdle /\ BootIdle /\ CopyIdle
SpecCapture == InitCapture /\ [][CaptureNext]_vars

\* lookups of Host objects by the threads of the pool
InitCache == CacheInit /\ DeployIdle /\ KnownIdle /\ RunIdle /\ CaptureIdle /\ RenameIdle /\ DhcpIdle /\ BootIdle /\ CopyIdle
SpecCache == InitCache /\ [][CacheNext]_vars

\* lookups of Host objects made one after the other
InitCacheSeq == CacheInitSeq /\ DeployIdle /\ KnownIdle /\ RunIdle /\ CaptureIdle /\ RenameIdle /\ DhcpIdle /\ BootIdle /\ CopyIdle
SpecCacheSeq == InitCacheSeq /\ [][CacheNext]_vars

\* the loop of _rename_workers
InitRename == RenameInit /\ DeployIdle /\ KnownIdle /\ RunIdle /\ CaptureIdle /\ CacheIdle /\ DhcpIdle /\ BootIdle /\ CopyIdle
SpecRename == InitRename /\ [][RenameNext]_vars

\* add_host calls on one DhcpConfig
InitAddHost == DhcpInit /\ DeployIdle /\ KnownIdle /\ RunIdle /\ CaptureIdle /\ CacheIdle /\ RenameIdle /\ BootIdle /\ CopyIdle
SpecAddHost == InitAddHost /\ [][AddHostNext]_vars

\* render_dhcpd_conf calls in one process
InitRender == DhcpInit /\ DeployIdle /\ KnownIdle /\ RunIdle /\ CaptureIdle /\ CacheIdle /\ RenameIdle /\ BootIdle /\ CopyIdle
SpecRender == InitRender /\ [][RenderNext]_vars

\* boot_iso_redfish calls
InitBoot == BootInit /\ DeployIdle /\ KnownIdle /\ RunIdle /\ CaptureIdle /\ CacheIdle /\ RenameIdle /\ DhcpIdle /\ CopyIdle
SpecBoot == InitBoot /\ [][BootNext]_vars

\* Host.write and Host.copy_to calls
InitCopy == CopyInit /\ DeployIdle /\ KnownIdle /\ RunIdle /\ CaptureIdle /\ CacheIdle /\ RenameIdle /\ DhcpIdle /\ BootIdle
SpecCopy == InitCopy /\ [][CopyNext]_vars

\* the calls with every step of the call taken in the end
SpecCopyFair == SpecCopy /\ WF_vars(CopyNext)

====
